---- MODULE Spec2Model ----
(***************************************************************************)
(* b2Click: stock-count reconciliation against an incoming goods invoice.  *)
(*                                                                         *)
(* The module models                                                       *)
(*   - the storage service (localStorage keys LOGS, INVOICE, PRODUCTS) and *)
(*     its scan ledger: getInventoryLogs, addInventoryLog,                 *)
(*     clearInventoryLogs, as used by several devices/tabs (Spec);         *)
(*   - the reconciliation computed by the report view (current and         *)
(*     earlier variant) and by the collection view's conference list, over *)
(*     stored items whose identifiers vary (SpecReport) and over stored    *)
(*     items whose quantities vary (SpecRows);                             *)
(*   - getActiveSessions, the session summaries the two dashboards show,   *)
(*     over stored ledgers of several invoices and users (SpecSessions).   *)
(***************************************************************************)
EXTENDS Integers, Sequences, FiniteSets, TLC

(***************************************************************************)
(* Bounds of the model.                                                    *)
(***************************************************************************)
MaxOps == 3          \* handler calls started in one behaviour
MaxScanQty == 1      \* largest quantity typed into the collection form
MaxItems == 2        \* invoice items of one invoice
MaxLogs == 2         \* scan events stored when a view is opened
MaxInvQty == 1       \* largest invoiceQuantity of an imported item
MaxFactor == 2       \* largest conversionFactor of an item
MaxSessionLogs == 3  \* scan events stored when a dashboard is opened
MaxEdits == 2        \* edit and upload handler calls in one behaviour of SpecEdit

Writers == {"w1", "w2"}            \* devices/tabs sharing the storage
Invoices == {"A", "B"}             \* invoice numbers
Undefined == -1                    \* a missing optional number (JS undefined)

(***************************************************************************)
(* State.                                                                  *)
(***************************************************************************)
VARIABLES
  lsLogs,        \* localStorage[LOGS]: sequence of InventoryLog
  lsInvoice,     \* localStorage[INVOICE]: invoice number -> sequence of InvoiceItem
  lsProducts,    \* localStorage[PRODUCTS]: sequence of Product
  pc,            \* per writer: position inside the storage call it is running
  logs,          \* per writer: the local array `logs` read by the running call
  newLog,        \* per writer: the log being appended (addInventoryLog)
  target,        \* per writer: invoiceNumber argument of clearInventoryLogs
  error,         \* per writer: CollectionView's error message (or "")
  atCall,        \* history, per writer: the stored log when its running call began
  nextId,        \* source of crypto.randomUUID(): ids never repeat
  started,       \* number of handler calls started so far
  acked,         \* history: ids whose addInventoryLog returned
  clearedIds,    \* history: ids stored for the invoice when a clear of it began
  clears,        \* history: number of clearInventoryLogs calls begun
  view,          \* which view is mounted: "none", "report", "collection", "early"
  invoiceItems,  \* view state: invoiceItems
  viewLogs,      \* view state: logs (ReportView) / allLogs (CollectionView)
  products,      \* view state: products
  recentSessions,\* dashboard state: recentSessions / sessions
  currentUser,   \* App state: role of the logged-in user ("" = null)
  appView,       \* App state: view (a ViewState)
  activeInvoiceNumber,  \* App state: activeInvoiceNumber ("" = null)
  sessionUser,   \* sessionStorage[sim_session_user]: a role ("" = absent)
  importPending, \* a FileReader started by InvoiceImportView has not fired onload
  xmlPending,    \* a FileReader started by CollectorDashboard has not fired onload
  thrown,        \* history: writers whose storage call threw into its caller
  allInvoices,   \* per writer: the local object `allInvoices` of its running call
  itemsRead      \* per writer: the local array `items` of its running update call

ledgerVars == <<lsLogs, pc, logs, newLog, target, error, atCall, nextId, started,
                acked, clearedIds, clears>>
viewVars == <<view, invoiceItems, viewLogs, products, recentSessions>>
appVars == <<currentUser, appView, activeInvoiceNumber, sessionUser, importPending,
            xmlPending>>
restVars == <<appVars, thrown, allInvoices, itemsRead>>
vars == <<lsLogs, lsInvoice, lsProducts, pc, logs, newLog, target, error, atCall,
          nextId, started, acked, clearedIds, clears, view, invoiceItems, viewLogs,
          products, recentSessions, restVars>>

(***************************************************************************)
(* Storage service: the scan ledger.                                       *)
(***************************************************************************)
NoLog == [id |-> 0, invoiceNumber |-> "", userId |-> "", barcode |-> "",
          quantity |-> 0, timestamp |-> 0]

\* getInventoryLogs ignoring its argument
GetAllLogs(stored, invoiceNumber) == stored

\* getInventoryLogs(invoiceNumber?): all logs, or those of one invoice ("" = no argument)
GetInventoryLogs(stored, invoiceNumber) ==
  IF invoiceNumber # ""
    THEN SelectSeq(stored, LAMBDA log: log.invoiceNumber = invoiceNumber)
    ELSE stored

\* clearInventoryLogs keeping nothing (its removeItem branch taken for any argument)
KeptLogsNone(ls, invoiceNumber) == <<>>

\* clearInventoryLogs: keptLogs = logs.filter(log => log.invoiceNumber !== invoiceNumber)
KeptLogs(ls, invoiceNumber) ==
  SelectSeq(ls, LAMBDA log: log.invoiceNumber # invoiceNumber)

Ids(ls) == {ls[i].id : i \in 1..Len(ls)}

\* the quantity field holds text; Number(quantity) is NaN for text that is no number
Digits == <<"1", "2", "3", "4", "5", "6", "7", "8", "9">>
QuantityTexts == {"", "abc", "-1", "0"} \cup {Digits[n] : n \in 1..MaxScanQty}
NaN == -2

NumberOf(text) ==
  CASE text = "" -> 0
    [] text = "abc" -> NaN
    [] text = "-1" -> -1
    [] text = "0" -> 0
    [] OTHER -> CHOOSE n \in 1..Len(Digits) : Digits[n] = text

\* handleAdd's validation without the quantity check
ValidateBarcodeOnly(barcode, quantity) ==
  IF barcode = "" THEN "barcode" ELSE ""

\* handleAdd's validation: the error it sets, "" when the input is accepted
\*   if (!barcode) ...; if (quantity === '' || isNaN(qtyNum) || qtyNum <= 0) ...
Validate(barcode, quantity) ==
  LET qtyNum == NumberOf(quantity)
  IN IF barcode = "" THEN "barcode"
     ELSE IF quantity = "" \/ qtyNum = NaN \/ (qtyNum # NaN /\ qtyNum <= 0)
       THEN "quantity"
       ELSE ""

\* CollectionView.handleAdd, rejected: setError and return
HandleAddRejected(w, barcode, quantity) ==
  /\ pc[w] = "idle"
  /\ started < MaxOps
  /\ Validate(barcode, quantity) # ""
  /\ error' = [error EXCEPT ![w] = Validate(barcode, quantity)]
  /\ started' = started + 1
  /\ UNCHANGED <<lsLogs, lsInvoice, lsProducts, pc, logs, newLog, target, atCall,
                 nextId, acked, clearedIds, clears>>
  /\ UNCHANGED viewVars
  /\ UNCHANGED restVars

\* CollectionView.handleAdd accepted, up to addInventoryLog's read of the stored log:
\*   const logs = getInventoryLogs(); const newLog = {...log, id: crypto.randomUUID()}
HandleAddAccepted(w, invoiceNumber, barcode, quantity) ==
  /\ pc[w] = "idle"
  /\ started < MaxOps
  /\ Validate(barcode, quantity) = ""
  /\ newLog' = [newLog EXCEPT ![w] =
                  [id |-> nextId, invoiceNumber |-> invoiceNumber, userId |-> w,
                   barcode |-> barcode, quantity |-> NumberOf(quantity),
                   timestamp |-> nextId]]
  /\ logs' = [logs EXCEPT ![w] = GetInventoryLogs(lsLogs, "")]
  /\ atCall' = [atCall EXCEPT ![w] = lsLogs]
  /\ nextId' = nextId + 1
  /\ started' = started + 1
  /\ pc' = [pc EXCEPT ![w] = "add_write"]
  /\ UNCHANGED <<lsLogs, lsInvoice, lsProducts, target, error, acked, clearedIds, clears>>
  /\ UNCHANGED viewVars
  /\ UNCHANGED restVars

\* one call of handleAdd with the form holding (barcode, quantity), on invoice
\* invoiceNumber
HandleAdd(w, invoiceNumber, barcode, quantity) ==
  \/ HandleAddRejected(w, barcode, quantity)
  \/ HandleAddAccepted(w, invoiceNumber, barcode, quantity)

HandleAddReject(w) ==
  \E barcode \in {"", "b1"}, quantity \in QuantityTexts :
    HandleAddRejected(w, barcode, quantity)

AddInventoryLogRead(w) ==
  \E invoiceNumber \in Invoices, barcode \in {"", "b1"}, quantity \in QuantityTexts :
    HandleAddAccepted(w, invoiceNumber, barcode, quantity)

\* addInventoryLog's write with unshift in place of push
AddInventoryLogWriteFront(w) ==
  /\ pc[w] = "add_write"
  /\ lsLogs' = <<newLog[w]>> \o logs[w]
  /\ acked' = acked \cup {newLog[w].id}
  /\ error' = [error EXCEPT ![w] = ""]
  /\ pc' = [pc EXCEPT ![w] = "idle"]
  /\ UNCHANGED <<lsInvoice, lsProducts, logs, newLog, target, atCall, nextId, started,
                 clearedIds, clears>>
  /\ UNCHANGED viewVars
  /\ UNCHANGED restVars

\* addInventoryLog's write: logs.push(newLog); localStorage.setItem(LOGS, logs); then
\* handleAdd clears the error (the lists it shows are re-read from storage: the views
\* below)
AddInventoryLogWrite(w) ==
  /\ pc[w] = "add_write"
  /\ lsLogs' = Append(logs[w], newLog[w])
  /\ acked' = acked \cup {newLog[w].id}
  /\ error' = [error EXCEPT ![w] = ""]
  /\ pc' = [pc EXCEPT ![w] = "idle"]
  /\ UNCHANGED <<lsInvoice, lsProducts, logs, newLog, target, atCall, nextId, started,
                 clearedIds, clears>>
  /\ UNCHANGED viewVars
  /\ UNCHANGED restVars

\* clearInventoryLogs(invoiceNumber), its read: const logs = getInventoryLogs()
ClearInventoryLogsRead(w) ==
  /\ pc[w] = "idle"
  /\ started < MaxOps
  /\ \E invoiceNumber \in Invoices :
       /\ target' = [target EXCEPT ![w] = invoiceNumber]
       /\ clearedIds' = clearedIds \cup Ids(GetInventoryLogs(lsLogs, invoiceNumber))
  /\ logs' = [logs EXCEPT ![w] = GetInventoryLogs(lsLogs, "")]
  /\ atCall' = [atCall EXCEPT ![w] = lsLogs]
  /\ clears' = clears + 1
  /\ started' = started + 1
  /\ pc' = [pc EXCEPT ![w] = "clear_write"]
  /\ UNCHANGED <<lsLogs, lsInvoice, lsProducts, newLog, error, nextId, acked>>
  /\ UNCHANGED viewVars
  /\ UNCHANGED restVars

\* clearInventoryLogs, its write: localStorage.setItem(LOGS, keptLogs)
ClearInventoryLogsWrite(w) ==
  /\ pc[w] = "clear_write"
  /\ lsLogs' = KeptLogs(logs[w], target[w])
  /\ pc' = [pc EXCEPT ![w] = "idle"]
  /\ UNCHANGED <<lsInvoice, lsProducts, logs, newLog, target, error, atCall, nextId,
                 started, acked, clearedIds, clears>>
  /\ UNCHANGED viewVars
  /\ UNCHANGED restVars

(***************************************************************************)
(* Inputs of the views: catalog entries, invoice items, stored scan events. *)
(***************************************************************************)
SeqsUpTo(S, n) == UNION {[1..k -> S] : k \in 0..n}

Product(barcode, systemCode, name) ==
  [barcode |-> barcode, systemCode |-> systemCode, name |-> name]

P11 == Product("b1", "s1", "n11")
P21 == Product("b2", "s1", "n21")
P2d == Product("b2", "-", "n2d")    \* two-column upload line: systemCode '-'

\* catalogs saved by the upload view (a file may repeat a line)
Catalogs == {<<>>, <<P11>>, <<P21>>, <<P11, P21>>, <<P21, P21>>, <<P2d>>}

\* items whose identifiers vary (parseNFeXML: barcode "" for SEM GTIN, cProd as is)
MatchItems ==
  [barcode : {"", "b1", "-"}, systemCode : {"", "s1", "-"}, name : {"item"},
   invoiceQuantity : {1}, conversionFactor : {1}]

\* items whose quantities vary
QtyItems ==
  [barcode : {"b1"}, systemCode : {""}, name : {"item"},
   invoiceQuantity : 0..MaxInvQty, conversionFactor : {Undefined} \cup 1..MaxFactor]

\* scan events as handleAdd stores them, before ids and timestamps: those of invoice A
\* and one of another invoice
ScanEvents ==
  [invoiceNumber : {"A"}, barcode : {"b1", "b2", "-"}, quantity : {1}]
    \cup {[invoiceNumber |-> "B", barcode |-> "b1", quantity |-> 1]}

StoredLogs(events) ==
  [i \in 1..Len(events) |->
     [id |-> i, invoiceNumber |-> events[i].invoiceNumber, userId |-> "w1",
      barcode |-> events[i].barcode, quantity |-> events[i].quantity, timestamp |-> i]]

(***************************************************************************)
(* JavaScript values.                                                      *)
(***************************************************************************)
Truthy(s) == s # ""                         \* a string in a condition
OrElse(s, d) == IF Truthy(s) THEN s ELSE d   \* s || d on strings
NumOrElse(x, d) == IF x = Undefined \/ x = 0 THEN d ELSE x   \* x || d on numbers

(***************************************************************************)
(* Scan totals: scanCounts[log.barcode] = (scanCounts[log.barcode] || 0) +  *)
(* log.quantity, and the key order of Object.entries (first appearance).   *)
(***************************************************************************)
RECURSIVE SumQuantity(_, _)
SumQuantity(ls, barcode) ==
  IF ls = <<>> THEN 0
  ELSE (IF Head(ls).barcode = barcode THEN Head(ls).quantity ELSE 0)
         + SumQuantity(Tail(ls), barcode)

ScanCounts(ls) ==
  [b \in {ls[i].barcode : i \in 1..Len(ls)} |-> SumQuantity(ls, b)]

RECURSIVE KeyOrder(_, _)
KeyOrder(ls, seen) ==
  IF ls = <<>> THEN <<>>
  ELSE IF Head(ls).barcode \in seen THEN KeyOrder(Tail(ls), seen)
  ELSE <<Head(ls).barcode>> \o KeyOrder(Tail(ls), seen \cup {Head(ls).barcode})

Entries(ls) == KeyOrder(ls, {})

\* products.find(p => p.systemCode === systemCode): index of the first, 0 if none
FindBySystemCode(prods, systemCode) ==
  LET hits == {i \in 1..Len(prods) : prods[i].systemCode = systemCode}
  IN IF hits = {} THEN 0 ELSE CHOOSE i \in hits : \A j \in hits : i <= j

\* products.find(p => p.barcode === barcode)
FindByBarcode(prods, barcode) ==
  LET hits == {i \in 1..Len(prods) : prods[i].barcode = barcode}
  IN IF hits = {} THEN 0 ELSE CHOOSE i \in hits : \A j \in hits : i <= j

(***************************************************************************)
(* ReportView (current): reportData and extraItems.                        *)
(***************************************************************************)
UnknownName == "Nao Cadastrado / Desconhecido"

\* a resolver that tries the catalog before the item's own barcode
ResolveCatalogFirst(item, scanCounts, prods) ==
  LET p == FindBySystemCode(prods, item.systemCode)
  IN IF Truthy(item.systemCode) /\ p # 0 /\ prods[p].barcode \in DOMAIN scanCounts
       THEN [counted |-> scanCounts[prods[p].barcode], matchedBarcode |-> prods[p].barcode]
     ELSE IF Truthy(item.barcode) /\ item.barcode \in DOMAIN scanCounts
       THEN [counted |-> scanCounts[item.barcode], matchedBarcode |-> item.barcode]
     ELSE [counted |-> 0, matchedBarcode |-> ""]

\* the two matching branches of mainReport: counted and matchedBarcode of one item
Resolve(item, scanCounts, prods) ==
  IF Truthy(item.barcode) /\ item.barcode \in DOMAIN scanCounts
    THEN [counted |-> scanCounts[item.barcode], matchedBarcode |-> item.barcode]
  ELSE IF ~Truthy(item.barcode) /\ Truthy(item.systemCode)
    THEN LET p == FindBySystemCode(prods, item.systemCode)
         IN IF p # 0 /\ Truthy(prods[p].barcode) /\ prods[p].barcode \in DOMAIN scanCounts
              THEN [counted |-> scanCounts[prods[p].barcode],
                    matchedBarcode |-> prods[p].barcode]
              ELSE [counted |-> 0, matchedBarcode |-> ""]
  ELSE [counted |-> 0, matchedBarcode |-> ""]

\* a status that takes a zero difference for a surplus
StatusOfInclusive(diff) ==
  IF diff >= 0 THEN "SURPLUS" ELSE "MISSING"

\* let status = 'MATCH'; if (diff < 0) status = 'MISSING'; if (diff > 0) status = 'SURPLUS'
StatusOf(diff) ==
  IF diff > 0 THEN "SURPLUS" ELSE IF diff < 0 THEN "MISSING" ELSE "MATCH"

\* a row that ignores the conversion factor in the difference
ReportItemUnconverted(item, scanCounts, prods) ==
  LET r == Resolve(item, scanCounts, prods)
      factor == NumOrElse(item.conversionFactor, 1)
      diff == r.counted - item.invoiceQuantity
  IN [systemCode |-> OrElse(item.systemCode, "-"),
      barcode |-> OrElse(item.barcode, OrElse(r.matchedBarcode, "-")),
      name |-> item.name,
      invoiceQuantity |-> item.invoiceQuantity,
      conversionFactor |-> factor,
      convertedQuantity |-> item.invoiceQuantity * factor,
      countedQuantity |-> r.counted,
      difference |-> diff,
      status |-> StatusOf(diff)]

\* one row of mainReport
ReportItem(item, scanCounts, prods) ==
  LET r == Resolve(item, scanCounts, prods)
      factor == NumOrElse(item.conversionFactor, 1)
      convertedQty == item.invoiceQuantity * factor
      diff == r.counted - convertedQty
  IN [systemCode |-> OrElse(item.systemCode, "-"),
      barcode |-> OrElse(item.barcode, OrElse(r.matchedBarcode, "-")),
      name |-> item.name,
      invoiceQuantity |-> item.invoiceQuantity,
      conversionFactor |-> factor,
      convertedQuantity |-> convertedQty,
      countedQuantity |-> r.counted,
      difference |-> diff,
      status |-> StatusOf(diff)]

MainReport(items, ls, prods) ==
  [i \in 1..Len(items) |-> ReportItem(items[i], ScanCounts(ls), prods)]

MatchedBarcodes(items, ls, prods) ==
  {Resolve(items[i], ScanCounts(ls), prods).matchedBarcode : i \in 1..Len(items)} \ {""}

ExtraOf(barcode, quantity, prods) ==
  LET k == FindByBarcode(prods, barcode)
  IN [barcode |-> barcode,
      systemCode |-> IF k = 0 THEN "-" ELSE OrElse(prods[k].systemCode, "-"),
      name |-> IF k # 0 THEN prods[k].name ELSE UnknownName,
      countedQuantity |-> quantity]

Extras(items, ls, prods) ==
  LET keys == SelectSeq(Entries(ls), LAMBDA b: b \notin MatchedBarcodes(items, ls, prods))
  IN [k \in 1..Len(keys) |-> ExtraOf(keys[k], ScanCounts(ls)[keys[k]], prods)]

(***************************************************************************)
(* CollectionView: conferenceData (items and extras).                      *)
(***************************************************************************)
ConfUnknownName == "Desconhecido"

\* a count in a condition: counts[b] is truthy when b was scanned and its total is not 0
Counted(counts, barcode) == barcode \in DOMAIN counts /\ counts[barcode] # 0

\* productsMatchingSystemCode.forEach(p => { if (counts[p.barcode]) counted += ... })
RECURSIVE SumBySystemCode(_, _, _)
SumBySystemCode(prods, systemCode, counts) ==
  IF prods = <<>> THEN 0
  ELSE (IF Head(prods).systemCode = systemCode /\ Counted(counts, Head(prods).barcode)
          THEN counts[Head(prods).barcode] ELSE 0)
         + SumBySystemCode(Tail(prods), systemCode, counts)

ConfCounted(invItem, counts, prods) ==
  IF Truthy(invItem.barcode) /\ Counted(counts, invItem.barcode)
    THEN counts[invItem.barcode]
  ELSE IF Truthy(invItem.systemCode)
    THEN SumBySystemCode(prods, invItem.systemCode, counts)
  ELSE 0

ConfStatus(counted, invoiceQuantity) ==
  IF counted > invoiceQuantity THEN "OVER"
  ELSE IF counted >= invoiceQuantity THEN "COMPLETE" ELSE "PENDING"

ConferenceItem(invItem, counts, prods) ==
  LET counted == ConfCounted(invItem, counts, prods)
  IN [barcode |-> invItem.barcode,
      systemCode |-> invItem.systemCode,
      name |-> invItem.name,
      invoiceQty |-> invItem.invoiceQuantity,
      countedQty |-> counted,
      status |-> ConfStatus(counted, invItem.invoiceQuantity)]

\* the list before items.sort
ConfItems(items, ls, prods) ==
  [i \in 1..Len(items) |-> ConferenceItem(items[i], ScanCounts(ls), prods)]

\* "Find Extras": the barcodes one conference item marks as matched
ConfMatchedOf(i, prods) ==
  (IF Truthy(i.barcode) THEN {i.barcode} ELSE {})
    \cup (LET p == FindBySystemCode(prods, i.systemCode)
          IN IF p # 0 THEN {prods[p].barcode} ELSE {})

ConfMatchedBarcodes(items, prods) ==
  UNION {ConfMatchedOf(items[i], prods) : i \in 1..Len(items)}

ConfExtraOf(bc, qty, prods) ==
  LET k == FindByBarcode(prods, bc)
  IN [barcode |-> bc,
      name |-> IF k # 0 THEN OrElse(prods[k].name, ConfUnknownName) ELSE ConfUnknownName,
      qty |-> qty]

ConfExtras(items, ls, prods) ==
  LET keys == SelectSeq(Entries(ls), LAMBDA bc: bc \notin ConfMatchedBarcodes(items, prods))
  IN [k \in 1..Len(keys) |-> ConfExtraOf(keys[k], ScanCounts(ls)[keys[k]], prods)]

\* items.sort: pending first, the order otherwise kept
ConfSorted(items, ls, prods) ==
  SelectSeq(ConfItems(items, ls, prods), LAMBDA c: c.status = "PENDING")
    \o SelectSeq(ConfItems(items, ls, prods), LAMBDA c: c.status # "PENDING")

(***************************************************************************)
(* ReportView (earlier variant): direct match only, the matched barcode is *)
(* deleted from scanCounts before the next item.                           *)
(***************************************************************************)
Without(scanCounts, barcode) ==
  [b \in DOMAIN scanCounts \ {barcode} |-> scanCounts[b]]

EarlyReportItem(item, scanCounts, prods) ==
  LET counted == IF Counted(scanCounts, item.barcode) THEN scanCounts[item.barcode] ELSE 0
      diff == counted - item.invoiceQuantity
      k == FindByBarcode(prods, item.barcode)
  IN [systemCode |-> IF k = 0 THEN "-" ELSE OrElse(prods[k].systemCode, "-"),
      barcode |-> item.barcode,
      name |-> item.name,
      invoiceQuantity |-> item.invoiceQuantity,
      countedQuantity |-> counted,
      difference |-> diff,
      status |-> StatusOf(diff)]

RECURSIVE EarlyFold(_, _, _)
EarlyFold(items, scanCounts, prods) ==
  IF items = <<>> THEN [rows |-> <<>>, rest |-> scanCounts]
  ELSE LET then == EarlyFold(Tail(items), Without(scanCounts, Head(items).barcode), prods)
       IN [rows |-> <<EarlyReportItem(Head(items), scanCounts, prods)>> \o then.rows,
           rest |-> then.rest]

EarlyMainReport(items, ls, prods) == EarlyFold(items, ScanCounts(ls), prods).rows

EarlyExtras(items, ls, prods) ==
  LET rest == EarlyFold(items, ScanCounts(ls), prods).rest
      keys == SelectSeq(Entries(ls), LAMBDA b: b \in DOMAIN rest)
  IN [k \in 1..Len(keys) |-> ExtraOf(keys[k], rest[keys[k]], prods)]

(***************************************************************************)
(* The views: mounting loads the view state from storage.                  *)
(***************************************************************************)
GetInvoiceData(stored, invoiceNumber) ==
  IF invoiceNumber # "" THEN stored[invoiceNumber] ELSE <<>>

\* ReportView's mount effect for invoice A
OpenReport ==
  /\ view = "none"
  /\ view' = "report"
  /\ UNCHANGED recentSessions
  /\ invoiceItems' = GetInvoiceData(lsInvoice, "A")
  /\ viewLogs' = GetInventoryLogs(lsLogs, "A")
  /\ products' = lsProducts
  /\ UNCHANGED <<lsInvoice, lsProducts>>
  /\ UNCHANGED ledgerVars
  /\ UNCHANGED restVars

\* CollectionView's mount effects for invoice A (allLogs)
OpenCollection ==
  /\ view = "none"
  /\ view' = "collection"
  /\ UNCHANGED recentSessions
  /\ products' = lsProducts
  /\ invoiceItems' = GetInvoiceData(lsInvoice, "A")
  /\ viewLogs' = GetInventoryLogs(lsLogs, "A")
  /\ UNCHANGED <<lsInvoice, lsProducts>>
  /\ UNCHANGED ledgerVars
  /\ UNCHANGED restVars

\* the earlier ReportView's mount effect: one unscoped invoice and log
OpenEarlyReport ==
  /\ view = "none"
  /\ view' = "early"
  /\ UNCHANGED recentSessions
  /\ invoiceItems' = GetInvoiceData(lsInvoice, "A")
  /\ viewLogs' = GetInventoryLogs(lsLogs, "")
  /\ products' = lsProducts
  /\ UNCHANGED <<lsInvoice, lsProducts>>
  /\ UNCHANGED ledgerVars
  /\ UNCHANGED restVars

(***************************************************************************)
(* Storage service: getActiveSessions, and the dashboards that show it.    *)
(***************************************************************************)
\* the later of two timestamps taken to be the second one
Latest(a, b) == b

\* Math.max
Max(a, b) == IF a >= b THEN a ELSE b

\* the scan counter adding the scanned quantity
AddQuantity(total, log) == total + log.quantity

\* session.totalItemsScanned += 1
CountScan(total, log) == total + 1

\* usersInvolved.push without the includes test
PushUserAlways(users, userId) == Append(users, userId)

\* if (!session.usersInvolved.includes(log.userId)) session.usersInvolved.push(log.userId)
PushUser(users, userId) ==
  IF \E k \in 1..Len(users) : users[k] = userId THEN users ELSE Append(users, userId)

\* the entry created for an invoiceNumber that sessionsMap does not hold yet
NewSession(log) ==
  [invoiceNumber |-> log.invoiceNumber, lastActivity |-> log.timestamp,
   totalItemsScanned |-> 0, usersInvolved |-> <<>>]

\* the update of the session of log's invoice
Touch(session, log) ==
  [invoiceNumber |-> session.invoiceNumber,
   lastActivity |-> Max(session.lastActivity, log.timestamp),
   totalItemsScanned |-> CountScan(session.totalItemsScanned, log),
   usersInvolved |-> PushUser(session.usersInvolved, log.userId)]

\* logs.forEach(...): sessionsMap as the sequence of its values, in the order in which
\* the keys were inserted (Object.values order for keys that are not array indices)
RECURSIVE SessionsMap(_)
SessionsMap(ls) ==
  IF ls = <<>> THEN <<>>
  ELSE LET log == ls[Len(ls)]
           prev == SessionsMap(SubSeq(ls, 1, Len(ls) - 1))
           held == \E k \in 1..Len(prev) : prev[k].invoiceNumber = log.invoiceNumber
           map == IF held THEN prev ELSE Append(prev, NewSession(log))
       IN [k \in 1..Len(map) |->
             IF map[k].invoiceNumber = log.invoiceNumber
               THEN Touch(map[k], log) ELSE map[k]]

\* the summaries left in sessionsMap order
Unsorted(sessions) == sessions

\* .sort((a, b) => b.lastActivity - a.lastActivity): stable, latest first
RECURSIVE SortByLastActivity(_)
SortByLastActivity(sessions) ==
  IF sessions = <<>> THEN <<>>
  ELSE LET s == sessions[Len(sessions)]
           sorted == SortByLastActivity(SubSeq(sessions, 1, Len(sessions) - 1))
           k == Cardinality({i \in 1..Len(sorted) : sorted[i].lastActivity >= s.lastActivity})
       IN SubSeq(sorted, 1, k) \o <<s>> \o SubSeq(sorted, k + 1, Len(sorted))

GetActiveSessions(stored) ==
  SortByLastActivity(SessionsMap(GetInventoryLogs(stored, "")))

\* CollectorDashboard's mount effect: setRecentSessions(getActiveSessions())
OpenCollectorDashboard ==
  /\ view = "none"
  /\ view' = "collector"
  /\ recentSessions' = GetActiveSessions(lsLogs)
  /\ UNCHANGED <<invoiceItems, viewLogs, products>>
  /\ UNCHANGED <<lsInvoice, lsProducts>>
  /\ UNCHANGED ledgerVars
  /\ UNCHANGED restVars

\* ValidatorDashboard's mount effect: setSessions(getActiveSessions())
OpenValidatorDashboard ==
  /\ view = "none"
  /\ view' = "validator"
  /\ recentSessions' = GetActiveSessions(lsLogs)
  /\ UNCHANGED <<invoiceItems, viewLogs, products>>
  /\ UNCHANGED <<lsInvoice, lsProducts>>
  /\ UNCHANGED ledgerVars
  /\ UNCHANGED restVars

\* what the mounted view renders
reportData == MainReport(invoiceItems, viewLogs, products)
extraItems == Extras(invoiceItems, viewLogs, products)
conferenceItems == ConfItems(invoiceItems, viewLogs, products)
conferenceExtras == ConfExtras(invoiceItems, viewLogs, products)
earlyReportData == EarlyMainReport(invoiceItems, viewLogs, products)
earlyExtraItems == EarlyExtras(invoiceItems, viewLogs, products)

(***************************************************************************)
(* Invoice items: the storage calls and the report view's edit handlers.   *)
(***************************************************************************)
Roles == {"ADMIN", "VALIDATOR", "COLLECTOR"}
Infinity == -4       \* the number 1/0
Null == -3           \* JSON null

\* JSON.stringify then JSON.parse of a number: NaN and Infinity are written as null
JsonNumber(x) == IF x = NaN \/ x = Infinity THEN Null ELSE x

\* JSON.stringify then JSON.parse of an item list
JsonItems(its) ==
  [k \in 1..Len(its) |->
     [its[k] EXCEPT !.invoiceQuantity = JsonNumber(@), !.conversionFactor = JsonNumber(@)]]

\* saveInvoiceData: allInvoices[invoiceNumber] = items, written back as JSON
SaveInvoiceData(stored, invoiceNumber, its) ==
  [stored EXCEPT ![invoiceNumber] = JsonItems(its)]

\* items.findIndex(item => (item.systemCode && item.systemCode === systemCode) ||
\*                         (item.barcode && item.barcode === barcode)); 0 for -1
FindIndex(its, systemCode, barcode) ==
  LET hits == {k \in 1..Len(its) :
                 \/ Truthy(its[k].systemCode) /\ its[k].systemCode = systemCode
                 \/ Truthy(its[k].barcode) /\ its[k].barcode = barcode}
  IN IF hits = {} THEN 0 ELSE CHOOSE k \in hits : \A l \in hits : k <= l

UpdateInvoiceItemQuantity(stored, invoiceNumber, systemCode, barcode, newQuantity) ==
  LET its == GetInvoiceData(stored, invoiceNumber)
      index == FindIndex(its, systemCode, barcode)
  IN IF index # 0
       THEN SaveInvoiceData(stored, invoiceNumber,
                            [its EXCEPT ![index].invoiceQuantity = newQuantity])
       ELSE stored

UpdateInvoiceItemFactor(stored, invoiceNumber, systemCode, barcode, newFactor) ==
  LET its == GetInvoiceData(stored, invoiceNumber)
      index == FindIndex(its, systemCode, barcode)
  IN IF index # 0
       THEN SaveInvoiceData(stored, invoiceNumber,
                            [its EXCEPT ![index].conversionFactor = newFactor])
       ELSE stored

\* canEdit: the quantity and factor inputs are rendered only for these roles
CanEdit(role) == role = "ADMIN" \/ role = "VALIDATOR"

\* normalize: the display value '-' back to ''
Normalize(val) == IF val = "-" THEN "" ELSE val

\* the items setInvoiceItems(prev => prev.map(...)) changes
MemMatch(i, targetSystemCode, targetBarcode) ==
  \/ Truthy(targetSystemCode) /\ OrElse(i.systemCode, "") = targetSystemCode
  \/ ~Truthy(targetSystemCode) /\ OrElse(i.barcode, "") = targetBarcode

\* handleQuantityUpdate's guard without the sign test

\* if (isNaN(newQuantity) || newQuantity < 0) return
QuantityRejected(newQuantity) ==
  newQuantity = NaN \/ (newQuantity # Infinity /\ newQuantity < 0)

\* if (isNaN(newFactor) || newFactor <= 0) return
FactorRejected(newFactor) ==
  newFactor = NaN \/ (newFactor # Infinity /\ newFactor <= 0)

\* handleQuantityUpdate(item, newQuantity) for the report row `row` of invoice A
QuantityUpdate(row, newQuantity) ==
  LET targetSystemCode == Normalize(row.systemCode)
      targetBarcode == Normalize(row.barcode)
  IN IF QuantityRejected(newQuantity)
       THEN UNCHANGED <<lsInvoice, invoiceItems>>
       ELSE /\ lsInvoice' = UpdateInvoiceItemQuantity(lsInvoice, "A", targetSystemCode,
                                                      targetBarcode, newQuantity)
            /\ invoiceItems' =
                 [k \in 1..Len(invoiceItems) |->
                    IF MemMatch(invoiceItems[k], targetSystemCode, targetBarcode)
                      THEN [invoiceItems[k] EXCEPT !.invoiceQuantity = newQuantity]
                      ELSE invoiceItems[k]]

\* handleFactorUpdate(item, newFactor) for the report row `row` of invoice A
FactorUpdate(row, newFactor) ==
  LET targetSystemCode == Normalize(row.systemCode)
      targetBarcode == Normalize(row.barcode)
  IN IF FactorRejected(newFactor)
       THEN UNCHANGED <<lsInvoice, invoiceItems>>
       ELSE /\ lsInvoice' = UpdateInvoiceItemFactor(lsInvoice, "A", targetSystemCode,
                                                    targetBarcode, newFactor)
            /\ invoiceItems' =
                 [k \in 1..Len(invoiceItems) |->
                    IF MemMatch(invoiceItems[k], targetSystemCode, targetBarcode)
                      THEN [invoiceItems[k] EXCEPT !.conversionFactor = newFactor]
                      ELSE invoiceItems[k]]

\* what the edit handlers leave alone
EditFrame ==
  /\ UNCHANGED <<lsLogs, lsProducts, pc, logs, newLog, target, error, atCall, nextId,
                 acked, clearedIds, clears>>
  /\ UNCHANGED <<view, viewLogs, products, recentSessions>>
  /\ UNCHANGED restVars

\* Number(e.target.value) of the quantity and factor inputs (type="number")
TypedNumbers == (-1)..MaxFactor

\* the value of a calculator expression: digits and + - * / . ( ), so also 0/0 and 1/0
CalculatorResults == {NaN, Infinity} \cup ((-1)..MaxInvQty)

\* the quantity input's onBlur on row i
HandleQuantityUpdate(i, newQuantity) ==
  /\ view = "report"
  /\ CanEdit(currentUser)
  /\ started < MaxEdits
  /\ i \in 1..Len(reportData)
  /\ QuantityUpdate(reportData[i], newQuantity)
  /\ started' = started + 1
  /\ EditFrame

\* the factor input's onBlur on row i
HandleFactorUpdate(i, newFactor) ==
  /\ view = "report"
  /\ CanEdit(currentUser)
  /\ started < MaxEdits
  /\ i \in 1..Len(reportData)
  /\ FactorUpdate(reportData[i], newFactor)
  /\ started' = started + 1
  /\ EditFrame

\* handleCalculatorOpen on row i, then handleCalculatorApply with the expression's value:
\*   if (!isNaN(result)) handleQuantityUpdate(calculatorTarget.item, Math.floor(result))
HandleCalculatorApply(i, result) ==
  /\ view = "report"
  /\ CanEdit(currentUser)
  /\ started < MaxEdits
  /\ i \in 1..Len(reportData)
  /\ IF result # NaN
       THEN QuantityUpdate(reportData[i], result)
       ELSE UNCHANGED <<lsInvoice, invoiceItems>>
  /\ started' = started + 1
  /\ EditFrame

\* the items parseNFeXML returns: cProd as systemCode, barcode '' for SEM GTIN,
\* conversionFactor 1
XmlItems ==
  [barcode : {"", "b1"}, systemCode : {"s1", "s2"}, name : {"item"},
   invoiceQuantity : 1..MaxInvQty, conversionFactor : {1}]

\* CollectorDashboard.handleXmlUpload, its FileReader's onload for the XML of invoice A:
\* saveInvoiceData(extractedNumber, items); onStartCollection(extractedNumber), which
\* mounts the collection view
HandleXmlUpload(its) ==
  /\ view = "collector"
  /\ currentUser # ""
  /\ started < MaxEdits
  /\ Len(its) # 0
  /\ lsInvoice' = SaveInvoiceData(lsInvoice, "A", its)
  /\ activeInvoiceNumber' = "A"
  /\ appView' = "COLLECT"
  /\ view' = "collection"
  /\ products' = lsProducts
  /\ invoiceItems' = GetInvoiceData(lsInvoice', "A")
  /\ viewLogs' = GetInventoryLogs(lsLogs, "A")
  /\ started' = started + 1
  /\ UNCHANGED <<lsLogs, lsProducts, pc, logs, newLog, target, error, atCall, nextId,
                 acked, clearedIds, clears, recentSessions>>
  /\ UNCHANGED <<currentUser, sessionUser, importPending, xmlPending, thrown,
                 allInvoices, itemsRead>>

\* App before login, no call running, no file being read
InitRest ==
  /\ currentUser = ""
  /\ appView = "DASHBOARD_COLLECTOR"
  /\ activeInvoiceNumber = ""
  /\ sessionUser = ""
  /\ importPending = FALSE
  /\ xmlPending = FALSE
  /\ thrown = {}
  /\ allInvoices = [w \in Writers |-> [n \in Invoices |-> <<>>]]
  /\ itemsRead = [w \in Writers |-> <<>>]

Init ==
  /\ lsLogs = <<>>
  /\ lsInvoice = [n \in Invoices |-> <<>>]
  /\ lsProducts = <<>>
  /\ pc = [w \in Writers |-> "idle"]
  /\ logs = [w \in Writers |-> <<>>]
  /\ newLog = [w \in Writers |-> NoLog]
  /\ target = [w \in Writers |-> ""]
  /\ error = [w \in Writers |-> ""]
  /\ atCall = [w \in Writers |-> <<>>]
  /\ nextId = 1
  /\ started = 0
  /\ acked = {}
  /\ clearedIds = {}
  /\ clears = 0
  /\ view = "none"
  /\ invoiceItems = <<>>
  /\ viewLogs = <<>>
  /\ products = <<>>
  /\ recentSessions = <<>>
  /\ InitRest

Next ==
  \E w \in Writers :
    \/ HandleAddReject(w)
    \/ AddInventoryLogRead(w)
    \/ AddInventoryLogWrite(w)
    \/ ClearInventoryLogsRead(w)
    \/ ClearInventoryLogsWrite(w)

Spec == Init /\ [][Next]_vars

(***************************************************************************)
(* Storage faults: localStorage.getItem or JSON.parse throwing inside        *)
(* getInventoryLogs (caught there, [] returned), localStorage.setItem        *)
(* throwing inside addInventoryLog or clearInventoryLogs (no try/catch).     *)
(***************************************************************************)
\* handleAdd accepted, addInventoryLog's read fails: getInventoryLogs returns []
AddInventoryLogReadFault(w) ==
  /\ pc[w] = "idle"
  /\ started < MaxOps
  /\ \E invoiceNumber \in Invoices :
       newLog' = [newLog EXCEPT ![w] =
                    [id |-> nextId, invoiceNumber |-> invoiceNumber, userId |-> w,
                     barcode |-> "b1", quantity |-> 1, timestamp |-> nextId]]
  /\ logs' = [logs EXCEPT ![w] = <<>>]
  /\ atCall' = [atCall EXCEPT ![w] = lsLogs]
  /\ nextId' = nextId + 1
  /\ started' = started + 1
  /\ pc' = [pc EXCEPT ![w] = "add_write"]
  /\ UNCHANGED <<lsLogs, lsInvoice, lsProducts, target, error, acked, clearedIds, clears>>
  /\ UNCHANGED viewVars
  /\ UNCHANGED restVars

\* addInventoryLog's setItem throws: nothing is stored and the exception leaves
\* addInventoryLog and handleAdd, which has no try/catch either
AddInventoryLogWriteFault(w) ==
  /\ pc[w] = "add_write"
  /\ thrown' = thrown \cup {w}
  /\ pc' = [pc EXCEPT ![w] = "idle"]
  /\ UNCHANGED <<lsLogs, lsInvoice, lsProducts, logs, newLog, target, error, atCall,
                 nextId, started, acked, clearedIds, clears>>
  /\ UNCHANGED viewVars
  /\ UNCHANGED <<appVars, allInvoices, itemsRead>>

\* clearInventoryLogs(invoiceNumber), its read fails: getInventoryLogs returns []
ClearInventoryLogsReadFault(w) ==
  /\ pc[w] = "idle"
  /\ started < MaxOps
  /\ \E invoiceNumber \in Invoices :
       /\ target' = [target EXCEPT ![w] = invoiceNumber]
       /\ clearedIds' = clearedIds \cup Ids(GetInventoryLogs(lsLogs, invoiceNumber))
  /\ logs' = [logs EXCEPT ![w] = <<>>]
  /\ atCall' = [atCall EXCEPT ![w] = lsLogs]
  /\ clears' = clears + 1
  /\ started' = started + 1
  /\ pc' = [pc EXCEPT ![w] = "clear_write"]
  /\ UNCHANGED <<lsLogs, lsInvoice, lsProducts, newLog, error, nextId, acked>>
  /\ UNCHANGED viewVars
  /\ UNCHANGED restVars

\* clearInventoryLogs' setItem throws: the exception leaves clearInventoryLogs
ClearInventoryLogsWriteFault(w) ==
  /\ pc[w] = "clear_write"
  /\ thrown' = thrown \cup {w}
  /\ pc' = [pc EXCEPT ![w] = "idle"]
  /\ UNCHANGED <<lsLogs, lsInvoice, lsProducts, logs, newLog, target, error, atCall,
                 nextId, started, acked, clearedIds, clears>>
  /\ UNCHANGED viewVars
  /\ UNCHANGED <<appVars, allInvoices, itemsRead>>

\* the report view mounts and its getInventoryLogs(invoiceNumber) fails: [] is shown
OpenReportFault ==
  /\ view = "none"
  /\ view' = "report"
  /\ products' = lsProducts
  /\ invoiceItems' = GetInvoiceData(lsInvoice, "A")
  /\ viewLogs' = <<>>
  /\ UNCHANGED recentSessions
  /\ UNCHANGED ledgerVars
  /\ UNCHANGED <<lsInvoice, lsProducts>>
  /\ UNCHANGED restVars

NextFaults ==
  \/ Next
  \/ \E w \in Writers :
       \/ AddInventoryLogReadFault(w)
       \/ AddInventoryLogWriteFault(w)
       \/ ClearInventoryLogsReadFault(w)
       \/ ClearInventoryLogsWriteFault(w)
  \/ OpenReportFault

SpecFaults == Init /\ [][NextFaults]_vars

(***************************************************************************)
(* The ledger's writers together with one mounted view of invoice A: the     *)
(* view is on writer w1's device.                                            *)
(***************************************************************************)
ViewOwner == "w1"

LiveItem ==
  [barcode |-> "b1", systemCode |-> "s1", name |-> "item", invoiceQuantity |-> 1,
   conversionFactor |-> 1]

InitLive ==
  /\ lsLogs = <<>>
  /\ lsInvoice \in {[n \in Invoices |-> IF n = "A" THEN it ELSE <<>>] :
                      it \in {<<>>, <<LiveItem>>}}
  /\ lsProducts = <<>>
  /\ pc = [w \in Writers |-> "idle"]
  /\ logs = [w \in Writers |-> <<>>]
  /\ newLog = [w \in Writers |-> NoLog]
  /\ target = [w \in Writers |-> ""]
  /\ error = [w \in Writers |-> ""]
  /\ atCall = [w \in Writers |-> <<>>]
  /\ nextId = 1
  /\ started = 0
  /\ acked = {}
  /\ clearedIds = {}
  /\ clears = 0
  /\ view = "none"
  /\ invoiceItems = <<>>
  /\ viewLogs = <<>>
  /\ products = <<>>
  /\ recentSessions = <<>>
  /\ InitRest

\* addInventoryLog's write, then the tail of handleAdd: setRecentLogs, and the effect on
\* recentLogs, setAllLogs(getInventoryLogs(invoiceNumber)), when the call was made
\* from the mounted collection view
LiveAddWrite(w) ==
  /\ pc[w] = "add_write"
  /\ lsLogs' = Append(logs[w], newLog[w])
  /\ acked' = acked \cup {newLog[w].id}
  /\ error' = [error EXCEPT ![w] = ""]
  /\ pc' = [pc EXCEPT ![w] = "idle"]
  /\ viewLogs' = IF w = ViewOwner /\ view = "collection" /\ newLog[w].invoiceNumber = "A"
                   THEN GetInventoryLogs(lsLogs', "A")
                   ELSE viewLogs
  /\ UNCHANGED <<lsInvoice, lsProducts, logs, newLog, target, atCall, nextId, started,
                 clearedIds, clears>>
  /\ UNCHANGED <<view, invoiceItems, products, recentSessions>>
  /\ UNCHANGED restVars

NextLive ==
  \/ \E w \in Writers :
       \/ AddInventoryLogRead(w)
       \/ LiveAddWrite(w)
       \/ ClearInventoryLogsRead(w)
       \/ ClearInventoryLogsWrite(w)
  \/ OpenReport
  \/ OpenCollection

SpecLive == InitLive /\ [][NextLive]_vars

(***************************************************************************)
(* Invoice-item writes by two devices, their reads and writes of the        *)
(* INVOICE key as separate steps.                                           *)
(***************************************************************************)
\* clearInvoiceData() with no argument for every call
ClearAllInvoiceData(stored, invoiceNumber) == [n \in Invoices |-> <<>>]

\* clearInvoiceData(invoiceNumber): delete allInvoices[invoiceNumber]; without an
\* invoice number the whole key is removed
ClearInvoiceData(stored, invoiceNumber) ==
  IF invoiceNumber # "" THEN [stored EXCEPT ![invoiceNumber] = <<>>]
  ELSE [n \in Invoices |-> <<>>]

InvoiceFrame ==
  /\ UNCHANGED <<lsLogs, lsProducts, logs, newLog, error, atCall, nextId, acked,
                 clearedIds, clears, thrown>>
  /\ UNCHANGED viewVars
  /\ UNCHANGED appVars

SavedItem ==
  [barcode |-> "b1", systemCode |-> "s1", name |-> "item", invoiceQuantity |-> 1,
   conversionFactor |-> 1]

\* saveInvoiceData(invoiceNumber, items) is called
SaveInvoiceDataCall(w, invoiceNumber) ==
  /\ pc[w] = "idle"
  /\ started < MaxOps
  /\ target' = [target EXCEPT ![w] = invoiceNumber]
  /\ itemsRead' = [itemsRead EXCEPT ![w] = <<SavedItem>>]
  /\ pc' = [pc EXCEPT ![w] = "save_read"]
  /\ started' = started + 1
  /\ UNCHANGED <<lsInvoice, allInvoices>>
  /\ InvoiceFrame

\* updateInvoiceItemQuantity up to its call of saveInvoiceData:
\*   items = getInvoiceData(invoiceNumber); index = items.findIndex(...)
UpdateInvoiceItemQuantityRead(w, invoiceNumber, newQuantity) ==
  LET its == GetInvoiceData(lsInvoice, invoiceNumber)
      index == FindIndex(its, SavedItem.systemCode, SavedItem.barcode)
  IN /\ pc[w] = "idle"
     /\ started < MaxOps
     /\ started' = started + 1
     /\ IF index # 0
          THEN /\ target' = [target EXCEPT ![w] = invoiceNumber]
               /\ itemsRead' = [itemsRead EXCEPT ![w] =
                                  [its EXCEPT ![index].invoiceQuantity = newQuantity]]
               /\ pc' = [pc EXCEPT ![w] = "save_read"]
          ELSE UNCHANGED <<target, itemsRead, pc>>
     /\ UNCHANGED <<lsInvoice, allInvoices>>
     /\ InvoiceFrame

\* updateInvoiceItemFactor up to its call of saveInvoiceData
UpdateInvoiceItemFactorRead(w, invoiceNumber, newFactor) ==
  LET its == GetInvoiceData(lsInvoice, invoiceNumber)
      index == FindIndex(its, SavedItem.systemCode, SavedItem.barcode)
  IN /\ pc[w] = "idle"
     /\ started < MaxOps
     /\ started' = started + 1
     /\ IF index # 0
          THEN /\ target' = [target EXCEPT ![w] = invoiceNumber]
               /\ itemsRead' = [itemsRead EXCEPT ![w] =
                                  [its EXCEPT ![index].conversionFactor = newFactor]]
               /\ pc' = [pc EXCEPT ![w] = "save_read"]
          ELSE UNCHANGED <<target, itemsRead, pc>>
     /\ UNCHANGED <<lsInvoice, allInvoices>>
     /\ InvoiceFrame

\* saveInvoiceData, its read: allInvoices = stored ? JSON.parse(stored) : {}
SaveInvoiceDataRead(w) ==
  /\ pc[w] = "save_read"
  /\ allInvoices' = [allInvoices EXCEPT ![w] = lsInvoice]
  /\ pc' = [pc EXCEPT ![w] = "save_write"]
  /\ UNCHANGED <<lsInvoice, target, itemsRead, started>>
  /\ InvoiceFrame

\* saveInvoiceData, its write: allInvoices[invoiceNumber] = items; setItem(INVOICE, ...)
SaveInvoiceDataWrite(w) ==
  /\ pc[w] = "save_write"
  /\ lsInvoice' = SaveInvoiceData(allInvoices[w], target[w], itemsRead[w])
  /\ pc' = [pc EXCEPT ![w] = "idle"]
  /\ UNCHANGED <<target, itemsRead, allInvoices, started>>
  /\ InvoiceFrame

\* clearInvoiceData(invoiceNumber), its read
ClearInvoiceDataRead(w, invoiceNumber) ==
  /\ pc[w] = "idle"
  /\ started < MaxOps
  /\ started' = started + 1
  /\ target' = [target EXCEPT ![w] = invoiceNumber]
  /\ allInvoices' = [allInvoices EXCEPT ![w] = lsInvoice]
  /\ pc' = [pc EXCEPT ![w] = "clear_invoice_write"]
  /\ UNCHANGED <<lsInvoice, itemsRead>>
  /\ InvoiceFrame

\* clearInvoiceData, its write: delete allInvoices[invoiceNumber]; setItem(INVOICE, ...)
ClearInvoiceDataWrite(w) ==
  /\ pc[w] = "clear_invoice_write"
  /\ lsInvoice' = ClearInvoiceData(allInvoices[w], target[w])
  /\ pc' = [pc EXCEPT ![w] = "idle"]
  /\ UNCHANGED <<target, itemsRead, allInvoices, started>>
  /\ InvoiceFrame

NextInvoice ==
  \E w \in Writers :
    \/ \E invoiceNumber \in Invoices : SaveInvoiceDataCall(w, invoiceNumber)
    \/ \E invoiceNumber \in Invoices, newQuantity \in 0..MaxInvQty :
         UpdateInvoiceItemQuantityRead(w, invoiceNumber, newQuantity)
    \/ \E invoiceNumber \in Invoices, newFactor \in 1..MaxFactor :
         UpdateInvoiceItemFactorRead(w, invoiceNumber, newFactor)
    \/ SaveInvoiceDataRead(w)
    \/ SaveInvoiceDataWrite(w)
    \/ \E invoiceNumber \in Invoices : ClearInvoiceDataRead(w, invoiceNumber)
    \/ ClearInvoiceDataWrite(w)

SpecInvoice == Init /\ [][NextInvoice]_vars

\* the storage when a view is opened: a catalog, the items of invoice A, its scan events
InitStored(items, catalogs) ==
  /\ lsLogs \in {StoredLogs(ev) : ev \in SeqsUpTo(ScanEvents, MaxLogs)}
  /\ lsInvoice \in {[n \in Invoices |-> IF n = "A" THEN it ELSE <<>>] :
                      it \in SeqsUpTo(items, MaxItems)}
  /\ lsProducts \in catalogs
  /\ pc = [w \in Writers |-> "idle"]
  /\ logs = [w \in Writers |-> <<>>]
  /\ newLog = [w \in Writers |-> NoLog]
  /\ target = [w \in Writers |-> ""]
  /\ error = [w \in Writers |-> ""]
  /\ atCall = [w \in Writers |-> <<>>]
  /\ nextId = Len(lsLogs) + 1
  /\ started = 0
  /\ acked = {}
  /\ clearedIds = {}
  /\ clears = 0
  /\ view = "none"
  /\ invoiceItems = <<>>
  /\ viewLogs = <<>>
  /\ products = <<>>
  /\ recentSessions = <<>>
  /\ InitRest

InitReport == InitStored(MatchItems, Catalogs)
InitRows == InitStored(QtyItems, {<<>>, <<P11>>})

\* the stored ledger when a dashboard is opened: events of both invoices, scanned by
\* both users, with timestamps in any order
Timestamps == {1, 2, 3}
SessionEvents ==
  [invoiceNumber : Invoices, userId : Writers, quantity : {1, 2}, timestamp : Timestamps]

SessionLogs(events) ==
  [i \in 1..Len(events) |->
     [id |-> i, invoiceNumber |-> events[i].invoiceNumber, userId |-> events[i].userId,
      barcode |-> "b1", quantity |-> events[i].quantity,
      timestamp |-> events[i].timestamp]]

InitSessions ==
  /\ lsLogs \in {SessionLogs(ev) : ev \in SeqsUpTo(SessionEvents, MaxSessionLogs)}
  /\ lsInvoice = [n \in Invoices |-> <<>>]
  /\ lsProducts = <<>>
  /\ pc = [w \in Writers |-> "idle"]
  /\ logs = [w \in Writers |-> <<>>]
  /\ newLog = [w \in Writers |-> NoLog]
  /\ target = [w \in Writers |-> ""]
  /\ error = [w \in Writers |-> ""]
  /\ atCall = [w \in Writers |-> <<>>]
  /\ nextId = Len(lsLogs) + 1
  /\ started = 0
  /\ acked = {}
  /\ clearedIds = {}
  /\ clears = 0
  /\ view = "none"
  /\ invoiceItems = <<>>
  /\ viewLogs = <<>>
  /\ products = <<>>
  /\ recentSessions = <<>>
  /\ InitRest

NextSessions == OpenCollectorDashboard \/ OpenValidatorDashboard

SpecSessions == InitSessions /\ [][NextSessions]_vars

(***************************************************************************)
(* App: login, navigation and the flow handlers on one device. The data the *)
(* collection and report views load when mounted is the subject of the       *)
(* specifications above; here only the dashboards' session list is kept.     *)
(***************************************************************************)
Dashboards == {"DASHBOARD_COLLECTOR", "DASHBOARD_VALIDATOR"}

\* handleLogin: the view a role is routed to
HomeOf(role) == IF CanEdit(role) THEN "DASHBOARD_VALIDATOR" ELSE "DASHBOARD_COLLECTOR"

\* navigation with every view offered to every role
NavTargetsAll(role, active) ==
  {"UPLOAD", "COLLECT", "INVOICE", "REPORT", "ADMIN", "DASHBOARD_COLLECTOR",
   "DASHBOARD_VALIDATOR"}

\* the views the desktop and mobile navigation offer (handleViewChange buttons)
NavTargets(role, active) ==
  (IF CanEdit(role) THEN {"UPLOAD", "DASHBOARD_VALIDATOR", "DASHBOARD_COLLECTOR"} ELSE {})
    \cup (IF role = "ADMIN" THEN {"ADMIN"} ELSE {})
    \cup (IF CanEdit(role) /\ active # "" THEN {"INVOICE", "REPORT"} ELSE {})
    \cup (IF active # "" THEN {"COLLECT"} ELSE {"DASHBOARD_COLLECTOR"})

\* the component the main area renders for (view, role, activeInvoiceNumber); "" if none
Shown ==
  IF currentUser = "" THEN "LOGIN"
  ELSE IF appView = "ADMIN" THEN (IF currentUser = "ADMIN" THEN "ADMIN" ELSE "")
  ELSE IF appView = "UPLOAD" THEN (IF CanEdit(currentUser) THEN "UPLOAD" ELSE "")
  ELSE IF appView \in Dashboards THEN appView
  ELSE IF activeInvoiceNumber # "" THEN appView ELSE ""

\* the session list a dashboard loads when it is mounted
MountSessions(user, v, stored) ==
  IF user # "" /\ v \in Dashboards THEN GetActiveSessions(stored) ELSE <<>>

SessionNumbers == {recentSessions[k].invoiceNumber : k \in 1..Len(recentSessions)}

AppFrame ==
  /\ UNCHANGED <<lsProducts, pc, logs, newLog, target, error, atCall, nextId, started,
                 acked, clearedIds, clears>>
  /\ UNCHANGED <<view, invoiceItems, viewLogs, products>>
  /\ UNCHANGED <<thrown, allInvoices, itemsRead>>

\* the page is (re)loaded: state starts over, file reads are gone, and the mount effect
\* logs the session's user in
Reload ==
  /\ currentUser' = sessionUser
  /\ appView' = IF sessionUser # "" THEN HomeOf(sessionUser) ELSE "DASHBOARD_COLLECTOR"
  /\ activeInvoiceNumber' = ""
  /\ importPending' = FALSE
  /\ xmlPending' = FALSE
  /\ recentSessions' = MountSessions(currentUser', appView', lsLogs)
  /\ UNCHANGED <<sessionUser, lsLogs, lsInvoice>>
  /\ AppFrame

\* LoginView reports a user: handleLogin
HandleLogin(role) ==
  /\ currentUser = ""
  /\ currentUser' = role
  /\ sessionUser' = role
  /\ appView' = HomeOf(role)
  /\ recentSessions' = MountSessions(role, appView', lsLogs)
  /\ UNCHANGED <<activeInvoiceNumber, importPending, xmlPending, lsLogs, lsInvoice>>
  /\ AppFrame

HandleLogout ==
  /\ currentUser # ""
  /\ currentUser' = ""
  /\ activeInvoiceNumber' = ""
  /\ sessionUser' = ""
  /\ recentSessions' = <<>>
  /\ UNCHANGED <<appView, importPending, xmlPending, lsLogs, lsInvoice>>
  /\ AppFrame

\* a navigation button: handleViewChange(newView)
HandleViewChange(newView) ==
  /\ currentUser # ""
  /\ newView \in NavTargets(currentUser, activeInvoiceNumber)
  /\ appView' = newView
  /\ recentSessions' = MountSessions(currentUser, newView, lsLogs)
  /\ UNCHANGED <<currentUser, activeInvoiceNumber, sessionUser, importPending, xmlPending,
                 lsLogs, lsInvoice>>
  /\ AppFrame

\* CollectorDashboard.handleSubmit or a recent session's button: onStartCollection
HandleStartCollection(invoiceNumber) ==
  /\ Shown = "DASHBOARD_COLLECTOR"
  /\ activeInvoiceNumber' = invoiceNumber
  /\ appView' = "COLLECT"
  /\ recentSessions' = <<>>
  /\ UNCHANGED <<currentUser, sessionUser, importPending, xmlPending, lsLogs, lsInvoice>>
  /\ AppFrame

\* "Trocar Nota"
HandleChangeInvoice ==
  /\ currentUser = "COLLECTOR"
  /\ activeInvoiceNumber # ""
  /\ activeInvoiceNumber' = ""
  /\ appView' = "DASHBOARD_COLLECTOR"
  /\ recentSessions' = MountSessions(currentUser, appView', lsLogs)
  /\ UNCHANGED <<currentUser, sessionUser, importPending, xmlPending, lsLogs, lsInvoice>>
  /\ AppFrame

\* ValidatorDashboard: a session of the list it loaded is chosen
HandleSelectSession(invoiceNumber) ==
  /\ Shown = "DASHBOARD_VALIDATOR"
  /\ invoiceNumber \in SessionNumbers
  /\ activeInvoiceNumber' = invoiceNumber
  /\ appView' = "INVOICE"
  /\ recentSessions' = <<>>
  /\ UNCHANGED <<currentUser, sessionUser, importPending, xmlPending, lsLogs, lsInvoice>>
  /\ AppFrame

\* "Sair Nota" of the mobile navigation (ADMIN, VALIDATOR)
HandleValidatorDone ==
  /\ currentUser # ""
  /\ currentUser # "COLLECTOR"
  /\ activeInvoiceNumber # ""
  /\ activeInvoiceNumber' = ""
  /\ appView' = "DASHBOARD_VALIDATOR"
  /\ recentSessions' = MountSessions(currentUser, appView', lsLogs)
  /\ UNCHANGED <<currentUser, sessionUser, importPending, xmlPending, lsLogs, lsInvoice>>
  /\ AppFrame

\* ReportView.handleResetClick, confirmed: clearInventoryLogs(invoiceNumber);
\* clearInvoiceData(invoiceNumber); onSessionReset() = handleValidatorDone
HandleResetClick ==
  /\ Shown = "REPORT"
  /\ lsLogs' = KeptLogs(GetInventoryLogs(lsLogs, ""), activeInvoiceNumber)
  /\ lsInvoice' = ClearInvoiceData(lsInvoice, activeInvoiceNumber)
  /\ activeInvoiceNumber' = ""
  /\ appView' = "DASHBOARD_VALIDATOR"
  /\ recentSessions' = MountSessions(currentUser, appView', lsLogs')
  /\ UNCHANGED <<currentUser, sessionUser, importPending, xmlPending>>
  /\ AppFrame

\* CollectorDashboard.handleXmlUpload: reader.readAsText(file)
XmlUploadStart ==
  /\ Shown = "DASHBOARD_COLLECTOR"
  /\ ~xmlPending
  /\ xmlPending' = TRUE
  /\ UNCHANGED <<currentUser, appView, activeInvoiceNumber, sessionUser, importPending,
                 recentSessions, lsLogs, lsInvoice>>
  /\ AppFrame

\* its reader.onload with a file that parses: saveInvoiceData(extractedNumber, items);
\* onStartCollection(extractedNumber)
XmlOnload(invoiceNumber) ==
  /\ xmlPending
  /\ xmlPending' = FALSE
  /\ lsInvoice' = SaveInvoiceData(lsInvoice, invoiceNumber, <<SavedItem>>)
  /\ activeInvoiceNumber' = invoiceNumber
  /\ appView' = "COLLECT"
  /\ recentSessions' = <<>>
  /\ UNCHANGED <<currentUser, sessionUser, importPending, lsLogs>>
  /\ AppFrame

\* its reader.onload with a file without an invoice number or items: setError
XmlOnloadError ==
  /\ xmlPending
  /\ xmlPending' = FALSE
  /\ UNCHANGED <<currentUser, appView, activeInvoiceNumber, sessionUser, importPending,
                 recentSessions, lsLogs, lsInvoice>>
  /\ AppFrame

\* InvoiceImportView.processFile: reader.readAsText(file)
InvoiceImportStart ==
  /\ Shown = "INVOICE"
  /\ ~importPending
  /\ importPending' = TRUE
  /\ UNCHANGED <<currentUser, appView, activeInvoiceNumber, sessionUser, xmlPending,
                 recentSessions, lsLogs, lsInvoice>>
  /\ AppFrame

\* its reader.onload with items: saveInvoiceData(items), which with the one argument
\* stores under no invoice number, then onDataLoaded() = handleViewChange(REPORT)
InvoiceImportOnload ==
  /\ importPending
  /\ importPending' = FALSE
  /\ appView' = "REPORT"
  /\ recentSessions' = <<>>
  /\ UNCHANGED <<currentUser, activeInvoiceNumber, sessionUser, xmlPending, lsLogs,
                 lsInvoice>>
  /\ AppFrame

\* its reader.onload without a valid item: setMessage and return
InvoiceImportOnloadError ==
  /\ importPending
  /\ importPending' = FALSE
  /\ UNCHANGED <<currentUser, appView, activeInvoiceNumber, sessionUser, xmlPending,
                 recentSessions, lsLogs, lsInvoice>>
  /\ AppFrame

\* InvoiceImportView.handleClear, confirmed: clearInvoiceData(); onDataLoaded()
HandleClear ==
  /\ Shown = "INVOICE"
  /\ lsInvoice' = ClearInvoiceData(lsInvoice, "")
  /\ appView' = "REPORT"
  /\ recentSessions' = <<>>
  /\ UNCHANGED <<currentUser, activeInvoiceNumber, sessionUser, importPending, xmlPending,
                 lsLogs>>
  /\ AppFrame

\* the ledger and the invoices stored when the App starts
AppEvents ==
  {<<>>,
   <<[invoiceNumber |-> "A", userId |-> "w1", quantity |-> 1, timestamp |-> 1]>>,
   <<[invoiceNumber |-> "A", userId |-> "w1", quantity |-> 1, timestamp |-> 1],
     [invoiceNumber |-> "B", userId |-> "w2", quantity |-> 1, timestamp |-> 2]>>,
   <<[invoiceNumber |-> "B", userId |-> "w2", quantity |-> 1, timestamp |-> 1],
     [invoiceNumber |-> "A", userId |-> "w1", quantity |-> 1, timestamp |-> 2],
     [invoiceNumber |-> "B", userId |-> "w1", quantity |-> 1, timestamp |-> 3]>>}

InitApp ==
  /\ lsLogs \in {SessionLogs(ev) : ev \in AppEvents}
  /\ lsInvoice \in [Invoices -> {<<>>, <<SavedItem>>}]
  /\ lsProducts = <<>>
  /\ pc = [w \in Writers |-> "idle"]
  /\ logs = [w \in Writers |-> <<>>]
  /\ newLog = [w \in Writers |-> NoLog]
  /\ target = [w \in Writers |-> ""]
  /\ error = [w \in Writers |-> ""]
  /\ atCall = [w \in Writers |-> <<>>]
  /\ nextId = Len(lsLogs) + 1
  /\ started = 0
  /\ acked = {}
  /\ clearedIds = {}
  /\ clears = 0
  /\ view = "none"
  /\ invoiceItems = <<>>
  /\ viewLogs = <<>>
  /\ products = <<>>
  /\ recentSessions = <<>>
  /\ InitRest

\* login, logout, session restore and navigation
NextNav ==
  \/ Reload
  \/ \E role \in Roles : HandleLogin(role)
  \/ HandleLogout
  \/ \E newView \in NavTargetsAll(currentUser, activeInvoiceNumber) :
       HandleViewChange(newView)
  \/ \E invoiceNumber \in Invoices : HandleStartCollection(invoiceNumber)
  \/ HandleChangeInvoice
  \/ \E invoiceNumber \in Invoices : HandleSelectSession(invoiceNumber)
  \/ HandleValidatorDone

SpecNav == InitApp /\ [][NextNav]_vars

NextApp ==
  \/ NextNav
  \/ HandleResetClick
  \/ XmlUploadStart
  \/ \E invoiceNumber \in Invoices : XmlOnload(invoiceNumber)
  \/ XmlOnloadError
  \/ InvoiceImportStart
  \/ InvoiceImportOnload
  \/ InvoiceImportOnloadError
  \/ HandleClear

SpecApp == InitApp /\ [][NextApp]_vars

\* the stored items of invoice A when SpecEdit begins: lines of an imported invoice whose
\* factor a validator has set to 2
EditItems ==
  [barcode : {"", "b1"}, systemCode : {"s1", "s2"}, name : {"item"},
   invoiceQuantity : {1}, conversionFactor : {2}]

P12 == Product("b1", "s2", "n12")

\* a logged-in user on the report of invoice A (mounted from storage), or on the
\* collector dashboard
InitEdit ==
  /\ lsLogs \in {StoredLogs(<<>>),
                  StoredLogs(<<[invoiceNumber |-> "A", barcode |-> "b1", quantity |-> 1]>>)}
  /\ lsInvoice \in {[n \in Invoices |-> IF n = "A" THEN it ELSE <<>>] :
                      it \in SeqsUpTo(EditItems, MaxItems)}
  /\ lsProducts \in {<<>>, <<P12>>}
  /\ pc = [w \in Writers |-> "idle"]
  /\ logs = [w \in Writers |-> <<>>]
  /\ newLog = [w \in Writers |-> NoLog]
  /\ target = [w \in Writers |-> ""]
  /\ error = [w \in Writers |-> ""]
  /\ atCall = [w \in Writers |-> <<>>]
  /\ nextId = Len(lsLogs) + 1
  /\ started = 0
  /\ acked = {}
  /\ clearedIds = {}
  /\ clears = 0
  /\ currentUser \in Roles
  /\ sessionUser = currentUser
  /\ \/ /\ appView = "REPORT"
        /\ activeInvoiceNumber = "A"
        /\ view = "report"
        /\ invoiceItems = GetInvoiceData(lsInvoice, "A")
        /\ viewLogs = GetInventoryLogs(lsLogs, "A")
        /\ products = lsProducts
        /\ recentSessions = <<>>
     \/ /\ appView = "DASHBOARD_COLLECTOR"
        /\ activeInvoiceNumber = ""
        /\ view = "collector"
        /\ invoiceItems = <<>>
        /\ viewLogs = <<>>
        /\ products = <<>>
        /\ recentSessions = GetActiveSessions(lsLogs)
  /\ importPending = FALSE
  /\ xmlPending = FALSE
  /\ thrown = {}
  /\ allInvoices = [w \in Writers |-> [n \in Invoices |-> <<>>]]
  /\ itemsRead = [w \in Writers |-> <<>>]

NextEdit ==
  \/ \E i \in 1..MaxItems, newQuantity \in TypedNumbers :
       HandleQuantityUpdate(i, newQuantity)
  \/ \E i \in 1..MaxItems, newFactor \in TypedNumbers : HandleFactorUpdate(i, newFactor)
  \/ \E i \in 1..MaxItems, result \in CalculatorResults : HandleCalculatorApply(i, result)
  \/ \E its \in SeqsUpTo(XmlItems, MaxItems) : HandleXmlUpload(its)

SpecEdit == InitEdit /\ [][NextEdit]_vars

NextView == OpenReport \/ OpenCollection \/ OpenEarlyReport

SpecReport == InitReport /\ [][NextView]_vars
SpecRows == InitRows /\ [][NextView]_vars

AllIdle == \A w \in Writers : pc[w] = "idle"

\* C2: two appends running concurrently lose no event: once every call has returned
\* (and no clear ever ran), every event whose append returned is stored.
NoLostAppend ==
  (AllIdle /\ clears = 0) => acked \subseteq Ids(lsLogs)

\* C3: clear is atomic and total under interleaving: once every call has returned, no
\* event that was stored for an invoice when a clear of that invoice began is stored
\* (no resurrection), and the write of a clear removes no stored event of another
\* invoice.
ClearNoResurrection ==
  AllIdle => Ids(lsLogs) \cap clearedIds = {}

ClearKeepsOtherInvoices ==
  \A w \in Writers :
    (pc[w] = "clear_write" /\ pc'[w] = "idle") =>
      \A i \in 1..Len(lsLogs) :
        lsLogs[i].invoiceNumber # target[w] => lsLogs[i].id \in Ids(lsLogs')

ClearAtomicTotal ==
  [](ClearNoResurrection) /\ [][ClearKeepsOtherInvoices]_vars

(***************************************************************************)
(* Properties of the reconciliation.                                       *)
(***************************************************************************)
RECURSIVE SumSeq(_)
SumSeq(q) == IF q = <<>> THEN 0 ELSE Head(q) + SumSeq(Tail(q))

TotalScanned(ls) == SumSeq([i \in 1..Len(ls) |-> ls[i].quantity])

Absent(v) == v = "" \/ v = "-"      \* the normalization of barcode and systemCode

\* the barcodes whose totals the report view counted into row i
RowConsumed(i) ==
  {Resolve(invoiceItems[i], ScanCounts(viewLogs), products).matchedBarcode} \ {""}

\* the barcodes whose totals the collection view counted into conference item i
ConfConsumed(i) ==
  LET it == invoiceItems[i]
      counts == ScanCounts(viewLogs)
  IN IF Truthy(it.barcode) /\ Counted(counts, it.barcode) THEN {it.barcode}
     ELSE IF Truthy(it.systemCode)
       THEN {products[k].barcode : k \in {j \in 1..Len(products) :
               products[j].systemCode = it.systemCode
               /\ Counted(counts, products[j].barcode)}}
     ELSE {}

\* C1: conservation: the counted quantities of the rows plus those of the extras
\* add up to the quantity of all scan events of the invoice, in the report view and
\* in the collection view's conference list.
ReportConservation ==
  view = "report" =>
    SumSeq([i \in 1..Len(reportData) |-> reportData[i].countedQuantity])
      + SumSeq([i \in 1..Len(extraItems) |-> extraItems[i].countedQuantity])
    = TotalScanned(viewLogs)

ConferenceConservation ==
  view = "collection" =>
    SumSeq([i \in 1..Len(conferenceItems) |-> conferenceItems[i].countedQty])
      + SumSeq([i \in 1..Len(conferenceExtras) |-> conferenceExtras[i].qty])
    = TotalScanned(viewLogs)

Conservation == ReportConservation /\ ConferenceConservation

\* C4: consume-on-match: every scanned barcode is counted into at most one row, and
\* of two items that resolve to the same barcode the later one reports 0.
ReportConsumeOnMatch ==
  view = "report" =>
    \A i, j \in 1..Len(invoiceItems) :
      (i < j /\ RowConsumed(i) \cap RowConsumed(j) # {}) =>
        reportData[j].countedQuantity = 0

ConferenceConsumeOnMatch ==
  view = "collection" =>
    \A i, j \in 1..Len(invoiceItems) :
      (i < j /\ ConfConsumed(i) \cap ConfConsumed(j) # {}) =>
        conferenceItems[j].countedQty = 0

ConsumeOnMatch == ReportConsumeOnMatch /\ ConferenceConsumeOnMatch

RECURSIVE SumOver(_, _)
SumOver(S, f) ==
  IF S = {} THEN 0 ELSE LET b == CHOOSE x \in S : TRUE IN f[b] + SumOver(S \ {b}, f)

\* the scanned barcodes of the catalog entries with the item's systemCode
CatalogBarcodes(it) ==
  {products[k].barcode : k \in {j \in 1..Len(products) :
     products[j].systemCode = it.systemCode}} \cap DOMAIN ScanCounts(viewLogs)

\* the direct tier found nothing: no barcode, or a barcode that was not scanned
DirectFoundNothing(it) ==
  it.barcode = "" \/ (it.barcode # "-" /\ it.barcode \notin DOMAIN ScanCounts(viewLogs))

SystemCodeSet(it) == ~Absent(it.systemCode)

NoRepeatedLine == \A j, k \in 1..Len(products) : products[j] = products[k] => j = k

\* C5: indirect match: an item whose direct tier found nothing and whose systemCode is
\* set counts the scanned totals of the barcodes of every catalog entry with that
\* systemCode, and consumes exactly those barcodes (in the collection view: for a
\* catalog that repeats no line).
ReportIndirectMatch ==
  view = "report" =>
    \A i \in 1..Len(invoiceItems) :
      (DirectFoundNothing(invoiceItems[i]) /\ SystemCodeSet(invoiceItems[i])) =>
        /\ reportData[i].countedQuantity
             = SumOver(CatalogBarcodes(invoiceItems[i]), ScanCounts(viewLogs))
        /\ RowConsumed(i) = CatalogBarcodes(invoiceItems[i])

ConferenceIndirectMatch ==
  (view = "collection" /\ NoRepeatedLine) =>
    \A i \in 1..Len(invoiceItems) :
      (DirectFoundNothing(invoiceItems[i]) /\ SystemCodeSet(invoiceItems[i])) =>
        conferenceItems[i].countedQty
          = SumOver(CatalogBarcodes(invoiceItems[i]), ScanCounts(viewLogs))

IndirectMatch == ReportIndirectMatch /\ ConferenceIndirectMatch

\* C6: direct match wins: an item whose barcode is non-empty and was scanned counts
\* the sum of the quantities of the scan events with that barcode, whatever the
\* catalog says about its systemCode; the report view consumes exactly that barcode
\* and the collection view withholds it from the extras.
DirectMatch ==
  /\ view = "report" =>
       \A i \in 1..Len(invoiceItems) :
         LET b == invoiceItems[i].barcode
         IN (b # "" /\ \E k \in 1..Len(viewLogs) : viewLogs[k].barcode = b) =>
              /\ reportData[i].countedQuantity = SumQuantity(viewLogs, b)
              /\ RowConsumed(i) = {b}
  /\ view = "collection" =>
       \A i \in 1..Len(invoiceItems) :
         LET b == invoiceItems[i].barcode
         IN (b # "" /\ \E k \in 1..Len(viewLogs) : viewLogs[k].barcode = b) =>
              /\ conferenceItems[i].countedQty = SumQuantity(viewLogs, b)
              /\ b \in ConfMatchedOf(conferenceItems[i], products)

\* C6 witness: the report shows an item with barcode b1 and systemCode s1, two scan
\* events of b1, and a catalog entry of s1 under another barcode.
DirectMatchWitness ==
  /\ view = "report"
  /\ products = <<P21>>
  /\ Len(viewLogs) = 2 /\ viewLogs[1].barcode = "b1" /\ viewLogs[2].barcode = "b1"
  /\ \E i \in 1..Len(invoiceItems) :
       /\ invoiceItems[i].barcode = "b1" /\ invoiceItems[i].systemCode = "s1"
       /\ reportData[i].countedQuantity = 2

InCatalog(b) == \E k \in 1..Len(products) : products[k].barcode = b
CatalogNames(b) == {products[k].name : k \in {j \in 1..Len(products) : products[j].barcode = b}}

\* C7: the extras are exactly the scanned barcodes no row consumed, each once, with
\* its scanned total, named from the catalog or by the unknown marker.
ReportExtrasExact ==
  view = "report" =>
    LET consumed == UNION {RowConsumed(i) : i \in 1..Len(invoiceItems)}
    IN /\ \A b \in DOMAIN ScanCounts(viewLogs) :
            (b \notin consumed) <=> (\E k \in 1..Len(extraItems) : extraItems[k].barcode = b)
       /\ \A k, l \in 1..Len(extraItems) :
            extraItems[k].barcode = extraItems[l].barcode => k = l
       /\ \A k \in 1..Len(extraItems) :
            /\ extraItems[k].barcode \in DOMAIN ScanCounts(viewLogs)
            /\ extraItems[k].countedQuantity = SumQuantity(viewLogs, extraItems[k].barcode)
            /\ IF InCatalog(extraItems[k].barcode)
                 THEN extraItems[k].name \in CatalogNames(extraItems[k].barcode)
                 ELSE extraItems[k].name = UnknownName

ConferenceExtrasExact ==
  view = "collection" =>
    LET consumed == UNION {ConfConsumed(i) : i \in 1..Len(invoiceItems)}
    IN /\ \A b \in DOMAIN ScanCounts(viewLogs) :
            (b \notin consumed)
              <=> (\E k \in 1..Len(conferenceExtras) : conferenceExtras[k].barcode = b)
       /\ \A k, l \in 1..Len(conferenceExtras) :
            conferenceExtras[k].barcode = conferenceExtras[l].barcode => k = l
       /\ \A k \in 1..Len(conferenceExtras) :
            /\ conferenceExtras[k].barcode \in DOMAIN ScanCounts(viewLogs)
            /\ conferenceExtras[k].qty = SumQuantity(viewLogs, conferenceExtras[k].barcode)
            /\ IF InCatalog(conferenceExtras[k].barcode)
                 THEN conferenceExtras[k].name \in CatalogNames(conferenceExtras[k].barcode)
                 ELSE conferenceExtras[k].name = ConfUnknownName

ExtrasExact == ReportExtrasExact /\ ConferenceExtrasExact

\* C8: normalization: an item whose barcode is "-" never takes the direct tier, and
\* an item whose systemCode is "-" is never matched through the catalog.
ReportNormalization ==
  view = "report" =>
    \A i \in 1..Len(invoiceItems) :
      /\ invoiceItems[i].barcode = "-" => "-" \notin RowConsumed(i)
      /\ invoiceItems[i].systemCode = "-" => RowConsumed(i) \subseteq {invoiceItems[i].barcode}

ConferenceNormalization ==
  view = "collection" =>
    \A i \in 1..Len(invoiceItems) :
      /\ invoiceItems[i].barcode = "-" => "-" \notin ConfConsumed(i)
      /\ invoiceItems[i].systemCode = "-" => ConfConsumed(i) \subseteq {invoiceItems[i].barcode}

Normalization == ReportNormalization /\ ConferenceNormalization

StatusBySign(row) ==
  /\ row.status = "MATCH" <=> row.difference = 0
  /\ row.status = "MISSING" <=> row.difference < 0
  /\ row.status = "SURPLUS" <=> row.difference > 0

\* C9: status determinism: in every report row (current and earlier report view)
\* the status is MATCH exactly when the difference is 0, MISSING exactly when it is
\* negative and SURPLUS exactly when it is positive.
StatusDeterminism ==
  /\ view = "report" => \A i \in 1..Len(reportData) : StatusBySign(reportData[i])
  /\ view = "early" => \A i \in 1..Len(earlyReportData) : StatusBySign(earlyReportData[i])

\* C9 witness: a report with a MISSING row and a SURPLUS row.
StatusWitness ==
  /\ view = "report"
  /\ \E i, j \in 1..Len(reportData) :
       /\ reportData[i].status = "MISSING" /\ reportData[i].difference < 0
       /\ reportData[j].status = "SURPLUS" /\ reportData[j].difference > 0

\* C10: in every report row convertedQuantity = invoiceQuantity * conversionFactor,
\* the factor of an item without one being 1, and difference = countedQuantity -
\* convertedQuantity.
Conversion ==
  view = "report" =>
    \A i \in 1..Len(invoiceItems) :
      LET f == IF invoiceItems[i].conversionFactor = Undefined
                 THEN 1 ELSE invoiceItems[i].conversionFactor
      IN /\ reportData[i].invoiceQuantity = invoiceItems[i].invoiceQuantity
         /\ reportData[i].conversionFactor = f
         /\ reportData[i].convertedQuantity = invoiceItems[i].invoiceQuantity * f
         /\ reportData[i].difference
              = reportData[i].countedQuantity - reportData[i].convertedQuantity

\* C10 witness: a row of an item with factor 2 that came up one unit short, next to
\* a row of an item without a factor.
ConversionWitness ==
  /\ view = "report"
  /\ \E i, j \in 1..Len(invoiceItems) :
       /\ invoiceItems[i].conversionFactor = 2 /\ invoiceItems[i].invoiceQuantity = 1
       /\ reportData[i].countedQuantity = 1 /\ reportData[i].convertedQuantity = 2
       /\ reportData[i].difference = -1 /\ reportData[i].status = "MISSING"
       /\ invoiceItems[j].conversionFactor = Undefined
       /\ reportData[j].conversionFactor = 1

(***************************************************************************)
(* Properties of the scan ledger.                                          *)
(***************************************************************************)
FormBarcodes == {"", "b1"}
PositiveTexts == {Digits[n] : n \in 1..Len(Digits)}

\* the input the ledger contract rejects: empty barcode, or a quantity that is not a
\* number above zero
InvalidInput(barcode, quantity) ==
  barcode = "" \/ quantity \notin PositiveTexts

RejectedAppendStep ==
  \A w \in Writers :
    (pc[w] = "idle" /\ started' # started) =>
      \A barcode \in FormBarcodes, quantity \in QuantityTexts :
        InvalidInput(barcode, quantity) =>
          \A invoiceNumber \in Invoices :
            HandleAdd(w, invoiceNumber, barcode, quantity)
              => /\ lsLogs' = lsLogs
                 /\ pc'[w] = "idle"
                 /\ error'[w] # ""

StoredEventsValid ==
  \A i \in 1..Len(lsLogs) : lsLogs[i].barcode # "" /\ lsLogs[i].quantity > 0

\* C11: a handleAdd call whose barcode is empty, or whose quantity is not a number
\* above zero, creates no event: the step leaves the stored ledger as it was, starts
\* no append and sets the error shown to the user; no stored event ever has an empty
\* barcode or a quantity that is not above zero.
RejectedAppend ==
  [](StoredEventsValid) /\ [][RejectedAppendStep]_vars

\* a rejection was reported to a writer while the ledger held events
RejectedAppendWitness ==
  \E w \in Writers : error[w] = "quantity" /\ pc[w] = "idle" /\ Len(lsLogs) >= 1

AcceptedAppendStep ==
  \A w \in Writers :
    (pc[w] = "add_write" /\ pc'[w] = "idle") =>
      /\ Len(lsLogs') = Len(atCall[w]) + 1
      /\ SubSeq(lsLogs', 1, Len(atCall[w])) = atCall[w]
      /\ lsLogs'[Len(lsLogs')] = newLog[w]
      /\ newLog[w].id \notin (Ids(atCall[w]) \cup Ids(lsLogs))

GivenFieldsStep ==
  \A w \in Writers, invoiceNumber \in Invoices, barcode \in FormBarcodes,
     quantity \in QuantityTexts :
    HandleAddAccepted(w, invoiceNumber, barcode, quantity)
      => /\ newLog'[w].invoiceNumber = invoiceNumber
         /\ newLog'[w].userId = w
         /\ newLog'[w].barcode = barcode
         /\ quantity \in PositiveTexts
         /\ Digits[newLog'[w].quantity] = quantity

\* C12: an accepted append stores the ledger as it was when the call began followed
\* by exactly one new event, which carries the given invoiceNumber, userId, barcode
\* and quantity and an id that no stored event has; the events stored before keep
\* their content and their order.
AcceptedAppend ==
  [][AcceptedAppendStep /\ GivenFieldsStep]_vars

\* an append returned on a ledger that already held an event
AcceptedAppendWitness ==
  \E w \in Writers :
    /\ pc[w] = "idle"
    /\ Len(atCall[w]) >= 1
    /\ lsLogs = Append(atCall[w], newLog[w])
    /\ newLog[w].quantity = MaxScanQty

EventsImmutableStep ==
  \A i \in 1..Len(lsLogs) :
    \/ \E j \in 1..Len(lsLogs') : lsLogs'[j] = lsLogs[i]
    \/ \E w \in Writers :
         /\ pc[w] = "clear_write" /\ pc'[w] = "idle"
         /\ target[w] = lsLogs[i].invoiceNumber

\* C13: a stored scan event never changes a field and leaves the ledger only in the
\* write of a clear of its own invoice.
ScanEventsImmutable ==
  [][EventsImmutableStep]_vars

EventsOf(ls, invoiceNumber) ==
  SelectSeq(ls, LAMBDA e: e.invoiceNumber = invoiceNumber)

ClearScopedStep ==
  \A w \in Writers :
    (pc[w] = "clear_write" /\ pc'[w] = "idle") =>
      /\ EventsOf(lsLogs', target[w]) = <<>>
      /\ \A n \in Invoices \ {target[w]} :
           EventsOf(lsLogs', n) = EventsOf(atCall[w], n)
      /\ Len(lsLogs') = Len(atCall[w]) - Len(EventsOf(atCall[w], target[w]))

\* C14: clear(invoiceNumber) leaves no stored event of that invoice, and the events of
\* every other invoice, as stored when the call began, stay stored with the same
\* content in the same order.
ClearScoped ==
  [][ClearScopedStep]_vars

\* a clear returned that removed an event of its invoice and kept one of another
ClearScopedWitness ==
  \E w \in Writers :
    /\ pc[w] = "idle"
    /\ target[w] # ""
    /\ EventsOf(atCall[w], target[w]) # <<>>
    /\ lsLogs # <<>>
    /\ lsLogs = EventsOf(atCall[w], IF target[w] = "A" THEN "B" ELSE "A")

\* C15: getInventoryLogs(invoiceNumber), as the report and collection views call it on
\* mounting, returns exactly the stored events of that invoice and none of another, each
\* once, in the order in which they are stored.
EventsForExact ==
  view \in {"report", "collection"} =>
    /\ \A i \in 1..Len(viewLogs) : viewLogs[i].invoiceNumber = "A"
    /\ \A k \in 1..Len(lsLogs) :
         lsLogs[k].invoiceNumber = "A" => \E i \in 1..Len(viewLogs) : viewLogs[i] = lsLogs[k]
    /\ Len(viewLogs) = Cardinality({k \in 1..Len(lsLogs) : lsLogs[k].invoiceNumber = "A"})
    /\ \A i, j \in 1..Len(viewLogs) :
         i < j => \E k, l \in 1..Len(lsLogs) :
                    k < l /\ lsLogs[k] = viewLogs[i] /\ lsLogs[l] = viewLogs[j]

\* the report view read the events of invoice A from a ledger that also holds invoice B
EventsForWitness ==
  /\ view = "report"
  /\ Len(viewLogs) >= 1
  /\ \E k \in 1..Len(lsLogs) : lsLogs[k].invoiceNumber = "B"

(***************************************************************************)
(* Properties of the session summaries.                                    *)
(***************************************************************************)
OnDashboard == view \in {"collector", "validator"}

\* the stored events of one invoice, by position
PositionsOf(invoiceNumber) ==
  {i \in 1..Len(lsLogs) : lsLogs[i].invoiceNumber = invoiceNumber}

\* C17: getActiveSessions returns exactly one summary for each invoiceNumber that has a
\* stored scan event, and none for any other; the summaries are in descending order of
\* lastActivity.
SummariesExact ==
  OnDashboard =>
    /\ {recentSessions[k].invoiceNumber : k \in 1..Len(recentSessions)}
         = {lsLogs[i].invoiceNumber : i \in 1..Len(lsLogs)}
    /\ \A k, l \in 1..Len(recentSessions) :
         k # l => recentSessions[k].invoiceNumber # recentSessions[l].invoiceNumber
    /\ \A k, l \in 1..Len(recentSessions) :
         k < l => recentSessions[k].lastActivity >= recentSessions[l].lastActivity

\* two sessions are shown, the one whose invoice was scanned first in second place
SummariesWitness ==
  /\ view = "collector"
  /\ Len(recentSessions) = 2
  /\ recentSessions[1].lastActivity > recentSessions[2].lastActivity
  /\ lsLogs[1].invoiceNumber = recentSessions[2].invoiceNumber

\* C18: the lastActivity of every summary is the largest timestamp among the stored
\* events of its invoice, in whatever order those events are stored.
LastActivityIsMax ==
  OnDashboard =>
    \A k \in 1..Len(recentSessions) :
      LET of == PositionsOf(recentSessions[k].invoiceNumber)
      IN /\ \E i \in of : lsLogs[i].timestamp = recentSessions[k].lastActivity
         /\ \A i \in of : lsLogs[i].timestamp <= recentSessions[k].lastActivity

\* an invoice's latest event is stored before an earlier one, and its summary shows the
\* timestamp of the latest
LastActivityWitness ==
  /\ view = "validator"
  /\ \E k \in 1..Len(recentSessions) :
       \E i, j \in PositionsOf(recentSessions[k].invoiceNumber) :
         /\ i < j
         /\ lsLogs[i].timestamp > lsLogs[j].timestamp
         /\ lsLogs[i].timestamp = recentSessions[k].lastActivity
         /\ j = Len(lsLogs)

\* C19: the totalItemsScanned of every summary is the number of stored events of its
\* invoice, not the sum of their quantities.
TotalIsCount ==
  OnDashboard =>
    \A k \in 1..Len(recentSessions) :
      recentSessions[k].totalItemsScanned
        = Cardinality(PositionsOf(recentSessions[k].invoiceNumber))

\* an invoice with two events of quantity 2 has a summary that counts 2
TotalIsCountWitness ==
  /\ view = "collector"
  /\ \E k \in 1..Len(recentSessions) :
       /\ recentSessions[k].totalItemsScanned = 2
       /\ \A i \in PositionsOf(recentSessions[k].invoiceNumber) : lsLogs[i].quantity = 2

\* position of the first stored event of the invoice scanned by userId
FirstScanBy(invoiceNumber, userId) ==
  CHOOSE i \in PositionsOf(invoiceNumber) :
    /\ lsLogs[i].userId = userId
    /\ \A j \in PositionsOf(invoiceNumber) : lsLogs[j].userId = userId => i <= j

\* C20: the usersInvolved of every summary holds each userId of the stored events of its
\* invoice exactly once and no other userId, in the order of each user's first event.
UsersInvolvedExact ==
  OnDashboard =>
    \A k \in 1..Len(recentSessions) :
      LET users == recentSessions[k].usersInvolved
          inv == recentSessions[k].invoiceNumber
      IN /\ {users[u] : u \in 1..Len(users)} = {lsLogs[i].userId : i \in PositionsOf(inv)}
         /\ \A u, v \in 1..Len(users) : u # v => users[u] # users[v]
         /\ \A u, v \in 1..Len(users) :
              u < v => FirstScanBy(inv, users[u]) < FirstScanBy(inv, users[v])

\* an invoice scanned by w2, then w1, then w2 again lists w2 before w1, each once
UsersInvolvedWitness ==
  /\ OnDashboard
  /\ \E k \in 1..Len(recentSessions) :
       /\ recentSessions[k].usersInvolved = <<"w2", "w1">>
       /\ Cardinality(PositionsOf(recentSessions[k].invoiceNumber)) = 3
       /\ lsLogs[3].userId = "w2"

(***************************************************************************)
(* Properties of the invoice-item edits.                                   *)
(***************************************************************************)
\* a number that is not negative (Infinity is one; null and NaN are not)
IsQuantity(x) == x = Infinity \/ x >= 0

\* a number above zero, or no factor at all
IsFactor(x) == x = Undefined \/ x = Infinity \/ x > 0

ItemsValid(its) ==
  \A k \in 1..Len(its) :
    IsQuantity(its[k].invoiceQuantity) /\ IsFactor(its[k].conversionFactor)

InvalidEditStep ==
  \A i \in 1..MaxItems :
    /\ \A q \in {NaN, -1} :
         (HandleQuantityUpdate(i, q) \/ HandleCalculatorApply(i, q))
           => UNCHANGED <<lsInvoice, invoiceItems>>
    /\ \A f \in {NaN, -1, 0} :
         HandleFactorUpdate(i, f) => UNCHANGED <<lsInvoice, invoiceItems>>

\* C21: an edit to a negative or non-numeric quantity, or to a factor that is not a
\* number above zero, changes neither the stored nor the in-memory items; so every
\* stored and every in-memory item keeps a numeric invoiceQuantity >= 0 and a
\* conversionFactor > 0 (or none).
InvalidEditsRejected ==
  /\ [](\A n \in Invoices : ItemsValid(lsInvoice[n]))
  /\ [](ItemsValid(invoiceItems))
  /\ [][InvalidEditStep]_vars

(***************************************************************************)
(* Properties under storage faults.                                        *)
(***************************************************************************)
\* the write of an append or a clear whose read failed (it read [] from a ledger
\* that held events), nobody having written between its read and its write
WriteAfterFailedRead(w) ==
  /\ pc[w] \in {"add_write", "clear_write"}
  /\ pc'[w] = "idle"
  /\ logs[w] # atCall[w]
  /\ lsLogs = atCall[w]

FaultKeepsEventsStep ==
  \A w \in Writers :
    WriteAfterFailedRead(w) =>
      \A n \in Invoices :
        (pc[w] = "clear_write" /\ n = target[w])
          \/ \A k \in 1..Len(EventsOf(lsLogs, n)) :
               EventsOf(lsLogs, n)[k] \in {lsLogs'[j] : j \in 1..Len(lsLogs')}

\* C22: a failed read, append or clear of scan events never lets an exception reach
\* the caller, and the events stored before the fault (other than those a clear is
\* asked to remove) are still stored after the operation.
StorageFaultsRecoverable ==
  /\ [](thrown = {})
  /\ [][FaultKeepsEventsStep]_vars
  /\ [][view' = "report" /\ view = "none" => lsLogs' = lsLogs]_vars

(***************************************************************************)
(* Views against the ledger as it is now.                                  *)
(***************************************************************************)
CurrentEvents == GetInventoryLogs(lsLogs, "A")

\* C23: whenever the report or the conference list of invoice A is shown, its rows
\* (counted quantities) and its extras are those aggregated from the events the
\* ledger holds for A now, whoever appended or cleared since the view was mounted.
DerivedFromLedger ==
  /\ view = "report" =>
       /\ reportData = MainReport(invoiceItems, CurrentEvents, products)
       /\ extraItems = Extras(invoiceItems, CurrentEvents, products)
  /\ view = "collection" =>
       /\ conferenceItems = ConfItems(invoiceItems, CurrentEvents, products)
       /\ conferenceExtras = ConfExtras(invoiceItems, CurrentEvents, products)

(***************************************************************************)
(* Who changes the stored quantities and factors.                          *)
(***************************************************************************)
SameItem(a, b) == a.systemCode = b.systemCode /\ a.barcode = b.barcode /\ a.name = b.name

\* some item stored for invoice n before the step is stored after it with another
\* invoiceQuantity or conversionFactor
StoredEditOf(n) ==
  \E k \in 1..Len(lsInvoice[n]), l \in 1..Len(lsInvoice'[n]) :
    /\ SameItem(lsInvoice[n][k], lsInvoice'[n][l])
    /\ \A j \in 1..Len(lsInvoice'[n]) :
         SameItem(lsInvoice[n][k], lsInvoice'[n][j]) =>
           \/ lsInvoice'[n][j].invoiceQuantity # lsInvoice[n][k].invoiceQuantity
           \/ lsInvoice'[n][j].conversionFactor # lsInvoice[n][k].conversionFactor

\* C24: the stored invoiceQuantity and conversionFactor of an existing invoice item
\* change only in a step taken by a user whose role is ADMIN or VALIDATOR.
RoleGatedEdits ==
  [][(\E n \in Invoices : StoredEditOf(n)) => CanEdit(currentUser)]_vars

(***************************************************************************)
(* Which item an edit changes.                                             *)
(***************************************************************************)
\* items differing from its at position i only, there in the field the edit sets
OnlyQuantityAt(its, i, q) == [its EXCEPT ![i].invoiceQuantity = q]
OnlyFactorAt(its, i, f) == [its EXCEPT ![i].conversionFactor = f]

EditOneItemStep ==
  (started' # started /\ view = "report" /\ lsInvoice["A"] = invoiceItems) =>
    \A i \in 1..Len(invoiceItems) :
      /\ \A q \in 0..MaxInvQty :
           HandleQuantityUpdate(i, q) =>
             /\ invoiceItems' = OnlyQuantityAt(invoiceItems, i, q)
             /\ lsInvoice'["A"] = invoiceItems'
      /\ \A f \in 1..MaxFactor :
           HandleFactorUpdate(i, f) =>
             /\ invoiceItems' = OnlyFactorAt(invoiceItems, i, f)
             /\ lsInvoice'["A"] = invoiceItems'

\* C26: an accepted quantity or factor edit on report row i, made when the stored and
\* the in-memory items agree, changes item i (the one the row was computed from) and
\* no other, in the stored list and in the in-memory list alike.
EditChangesItsItem == [][EditOneItemStep]_vars

(***************************************************************************)
(* Concurrent invoice-item writes.                                         *)
(***************************************************************************)
InvoiceWriteStep ==
  \A w \in Writers :
    (pc[w] \in {"save_write", "clear_invoice_write"} /\ pc'[w] = "idle") =>
      \A n \in Invoices \ {target[w]} : lsInvoice'[n] = lsInvoice[n]

\* C25: the write of a save, an edit or a clear of one invoice's items leaves the items
\* another writer has stored for every other invoice as they are, whatever the
\* interleaving of the writers' reads and writes.
InvoiceWritesKept == [][InvoiceWriteStep]_vars

(***************************************************************************)
(* The report view and the collection view on the same inputs.             *)
(***************************************************************************)
ReportExtraTotals ==
  {<<extraItems[k].barcode, extraItems[k].countedQuantity>> : k \in 1..Len(extraItems)}

ConferenceExtraTotals ==
  {<<conferenceExtras[k].barcode, conferenceExtras[k].qty>> :
     k \in 1..Len(conferenceExtras)}

\* C27: on the items, catalog and scan events a view has loaded, the report and the
\* conference list give every invoice item the same counted quantity and list the
\* same extra barcodes with the same quantities.
ResolversAgree ==
  view \in {"report", "collection"} =>
    /\ \A i \in 1..Len(invoiceItems) :
         reportData[i].countedQuantity = conferenceItems[i].countedQty
    /\ ReportExtraTotals = ConferenceExtraTotals

(***************************************************************************)
(* Properties of the App.                                                  *)
(***************************************************************************)
SummaryOf(ls, n) == SelectSeq(GetActiveSessions(ls), LAMBDA x: x.invoiceNumber = n)

SessionCloseStep ==
  HandleResetClick =>
    /\ EventsOf(lsLogs', activeInvoiceNumber) = <<>>
    /\ lsInvoice'[activeInvoiceNumber] = <<>>
    /\ SummaryOf(lsLogs', activeInvoiceNumber) = <<>>
    /\ activeInvoiceNumber \notin {recentSessions'[k].invoiceNumber :
                                      k \in 1..Len(recentSessions')}
    /\ \A n \in Invoices \ {activeInvoiceNumber} :
         /\ EventsOf(lsLogs', n) = EventsOf(lsLogs, n)
         /\ lsInvoice'[n] = lsInvoice[n]
         /\ SummaryOf(lsLogs', n) = SummaryOf(lsLogs, n)

\* C28: a confirmed session close of invoice N leaves N without scan events, without
\* invoice items and without a session summary, and leaves the scan events, the invoice
\* items and the summary of every other invoice as they were.
SessionCloseScoped == [][SessionCloseStep]_vars

\* invoice A was closed while B still has its event, its items and its summary
SessionCloseWitness ==
  /\ Shown = "DASHBOARD_VALIDATOR"
  /\ activeInvoiceNumber = ""
  /\ Len(lsLogs) = 1
  /\ lsLogs[1].id = 2
  /\ lsLogs[1].invoiceNumber = "B"
  /\ lsInvoice["A"] = <<>>
  /\ lsInvoice["B"] # <<>>
  /\ SessionNumbers = {"B"}

\* C29: a logged-in COLLECTOR is never shown the REPORT, INVOICE, UPLOAD or ADMIN view,
\* and nobody but an ADMIN is shown the ADMIN view, over login, logout, session restore
\* and navigation.
ViewsByRole ==
  /\ currentUser = "COLLECTOR" => Shown \notin {"REPORT", "INVOICE", "UPLOAD", "ADMIN"}
  /\ currentUser # "ADMIN" => Shown # "ADMIN"

\* a collector who logged in and went to the collection of an invoice
ViewsByRoleWitness ==
  /\ currentUser = "COLLECTOR"
  /\ Shown = "COLLECT"

ClearingMovesToDashboard ==
  /\ (activeInvoiceNumber # "" /\ activeInvoiceNumber' = "" /\ currentUser' # "")
       => appView' \in Dashboards
  /\ (currentUser = "" /\ currentUser' # "") => appView' \in Dashboards

\* C30: while a user is logged in, the view is COLLECT, INVOICE or REPORT only with an
\* active invoice number set; and every step that clears the active invoice number, or
\* logs a user in, moves the view to a dashboard.
ActiveInvoiceSet ==
  /\ [](currentUser # "" /\ appView \in {"COLLECT", "INVOICE", "REPORT"}
          => activeInvoiceNumber # "")
  /\ [][ClearingMovesToDashboard]_vars
====
